---- MODULE Spec2Model ----
(***************************************************************************)
(* A model of recall-mcp's secret lifecycle manager (src/env.ts and the    *)
(* RecallClientManager that consumes the key) and of its dynamic tool      *)
(* registry (src/tool-manager.ts and the catalog kept by src/index.ts).    *)
(*                                                                         *)
(* Text is modelled as a sequence of one-character strings so that the     *)
(* regular expressions of the redactor and the parsing of the .env file    *)
(* are computed character by character, as the code computes them.         *)
(***************************************************************************)
EXTENDS Integers, Sequences, FiniteSets, TLC

(***************************************************************************)
(* Text literals of the source.                                            *)
(***************************************************************************)
REDACTED_KEY ==
    <<"[", "R", "E", "D", "A", "C", "T", "E", "D", "_", "K", "E", "Y", "]">>

REDACTED_LONG_VALUE ==
    <<"[", "R", "E", "D", "A", "C", "T", "E", "D", "_", "L", "O", "N", "G", "_", "V", "A", "L",
    "U", "E", "]">>

REDACTED ==
    <<"[", "R", "E", "D", "A", "C", "T", "E", "D", "]">>

ObjectObject ==
    <<"[", "o", "b", "j", "e", "c", "t", " ", "O", "b", "j", "e", "c", "t", "]">>

\* the level tags of the logger
Tag ==
    [
     error |-> <<"[", "E", "R", "R", "O", "R", "]" >>,
     warn |-> <<"[", "W", "A", "R", "N", "]" >>,
     info |-> <<"[", "I", "N", "F", "O", "]" >>
    ]

RECALL_PRIVATE_KEY ==
    <<"R", "E", "C", "A", "L", "L", "_", "P", "R", "I", "V", "A", "T", "E", "_", "K", "E", "Y">>

ENV_FILE_PATH ==
    <<"/", "s", "r", "v", "/", "r", "e", "c", "a", "l", "l", "-", "m", "c", "p", "/", ".", "e",
    "n", "v">>

\* the texts loadSecrets logs and throws
EnvText ==
    [
     usingExternal |-> <<"U", "s", "i", "n", "g", " ", "R", "E", "C", "A", "L", "L", "_",
        "P", "R", "I", "V", "A", "T", "E", "_", "K", "E", "Y", " ", "f", "r", "o", "m",
        " ", "e", "x", "t", "e", "r", "n", "a", "l", " ", "e", "n", "v", "i", "r", "o",
        "n", "m", "e", "n", "t", " ", "v", "a", "r", "i", "a", "b", "l", "e", "s", "." >>,
     loadedFromFile |-> <<"L", "o", "a", "d", "e", "d", " ", "R", "E", "C", "A", "L", "L",
        "_", "P", "R", "I", "V", "A", "T", "E", "_", "K", "E", "Y", " ", "f", "r", "o",
        "m", " ", ".", "e", "n", "v", " ", "f", "i", "l", "e", " ", "a", "t", ":", " " >>,
     failedToLoad |-> <<"F", "a", "i", "l", "e", "d", " ", "t", "o", " ", "l", "o", "a",
        "d", " ", ".", "e", "n", "v", ":", " " >>,
     integrity |-> <<"I", "n", "t", "e", "g", "r", "i", "t", "y", " ", "c", "h", "e", "c",
        "k", " ", "f", "a", "i", "l", "e", "d", ":", " ", ".", "e", "n", "v", " ", "f",
        "i", "l", "e", " ", "h", "a", "s", "h", " ", "d", "o", "e", "s", " ", "n", "o",
        "t", " ", "m", "a", "t", "c", "h", " ", "e", "x", "p", "e", "c", "t", "e", "d",
        " ", "v", "a", "l", "u", "e", "." >>,
     notInFile |-> <<"R", "E", "C", "A", "L", "L", "_", "P", "R", "I", "V", "A", "T", "E",
        "_", "K", "E", "Y", " ", "n", "o", "t", " ", "f", "o", "u", "n", "d", " ", "i",
        "n", " ", ".", "e", "n", "v", " ", "f", "i", "l", "e", "." >>,
     noSuchFile |-> <<"E", "N", "O", "E", "N", "T", ":", " ", "n", "o", " ", "s", "u", "c",
        "h", " ", "f", "i", "l", "e", " ", "o", "r", " ", "d", "i", "r", "e", "c", "t",
        "o", "r", "y", ",", " ", "o", "p", "e", "n", " " >>
    ]

(***************************************************************************)
(* Characters and the helpers the regular expressions need.                *)
(***************************************************************************)
HexKeyLen == 64

LongValueLen == 32

HexDigits ==
    {"0", "1", "2", "3", "4", "5", "6", "7", "8", "9",
     "a", "b", "c", "d", "e", "f", "A", "B", "C", "D", "E", "F"}

\* \s of a JavaScript regular expression, as far as the model's texts use it
Whitespace == {" ", "\n", "\t", "\r"}

\* the lower-case letter of each upper-case letter
LowerOf ==
    LET upper == <<"A", "B", "C", "D", "E", "F", "G", "H", "I", "J", "K", "L", "M",
                   "N", "O", "P", "Q", "R", "S", "T", "U", "V", "W", "X", "Y", "Z">>
        lower == <<"a", "b", "c", "d", "e", "f", "g", "h", "i", "j", "k", "l", "m",
                   "n", "o", "p", "q", "r", "s", "t", "u", "v", "w", "x", "y", "z">>
    IN  [c \in {upper[i] : i \in 1..26} |-> lower[CHOOSE i \in 1..26 : upper[i] = c]]

\* String.prototype.toLowerCase, one character
LowerChar(c) == IF c \in DOMAIN LowerOf THEN LowerOf[c] ELSE c

\* String.prototype.toLowerCase
ToLowerCase(s) == [i \in 1..Len(s) |-> LowerChar(s[i])]

\* the text p stands in s at position i
MatchAt(s, i, p) == i + Len(p) - 1 <= Len(s) /\ SubSeq(s, i, i + Len(p) - 1) = p

\* String.prototype.includes
Includes(s, p) == \E i \in 1..(Len(s) + 1) : MatchAt(s, i, p)

\* String.prototype.startsWith
StartsWith(s, p) == MatchAt(s, 1, p)

\* the least element of a non-empty set of positions
Least(S) == CHOOSE j \in S : \A k \in S : j <= k

\* the length of the longest run of characters of class C that starts at i
RunIn(s, i, C) ==
    LET stops == {j \in i..Len(s) : s[j] \notin C}
    IN  IF i > Len(s) THEN 0
        ELSE IF stops = {} THEN Len(s) - i + 1 ELSE Least(stops) - i

\* the length of the longest run of characters outside class C that starts at i
RunNotIn(s, i, C) ==
    LET stops == {j \in i..Len(s) : s[j] \in C}
    IN  IF i > Len(s) THEN 0
        ELSE IF stops = {} THEN Len(s) - i + 1 ELSE Least(stops) - i

\* the characters [^=&\s] excludes
Separators == {"=", "&"} \cup Whitespace

\* the characters [^&\s] excludes
ValueEnds == {"&"} \cup Whitespace

(***************************************************************************)
(* redactSensitive, the three replacements of a string in order.           *)
(***************************************************************************)
\* .replace(/[0-9a-fA-F]{64}/g, '[REDACTED_KEY]'): the leftmost match from i on starts
\* where a run of hexadecimal digits starts, and the scan resumes after the match
RECURSIVE ReplaceHexKeys(_, _)
ReplaceHexKeys(s, i) ==
    LET hits == {j \in i..(Len(s) - HexKeyLen + 1) :
                    /\ s[j] \in HexDigits
                    /\ j = i \/ s[j - 1] \notin HexDigits
                    /\ RunIn(s, j, HexDigits) >= HexKeyLen}
    IN  IF hits = {} THEN SubSeq(s, i, Len(s))
        ELSE LET j == Least(hits)
             IN  SubSeq(s, i, j - 1) \o REDACTED_KEY \o ReplaceHexKeys(s, j + HexKeyLen)

\* .replace(/[^=&\s]{32,}/g, '[REDACTED_LONG_VALUE]'): a match takes the whole run
RECURSIVE ReplaceLongValues(_, _)
ReplaceLongValues(s, i) ==
    LET hits == {j \in i..(Len(s) - LongValueLen + 1) :
                    /\ s[j] \notin Separators
                    /\ j = i \/ s[j - 1] \in Separators
                    /\ RunNotIn(s, j, Separators) >= LongValueLen}
    IN  IF hits = {} THEN SubSeq(s, i, Len(s))
        ELSE LET j == Least(hits)
             IN  SubSeq(s, i, j - 1) \o REDACTED_LONG_VALUE
                 \o ReplaceLongValues(s, j + RunNotIn(s, j, Separators))

\* (private_key|secret|key|token|password), tried in this order
SensitiveParamNames ==
    <<<<"p", "r", "i", "v", "a", "t", "e", "_", "k", "e", "y">>,
      <<"s", "e", "c", "r", "e", "t">>,
      <<"k", "e", "y">>,
      <<"t", "o", "k", "e", "n">>,
      <<"p", "a", "s", "s", "w", "o", "r", "d">>>>

\* the first characters of the alternatives
KeywordHeads == {SensitiveParamNames[k][1] : k \in 1..Len(SensitiveParamNames)}

\* the alternative of the group that matches at i with a value after it, 0 if none
\* does (flag i: letter case is ignored)
KeywordAt(s, i) ==
    IF LowerChar(s[i]) \notin KeywordHeads THEN 0
    ELSE LET hits == {k \in 1..Len(SensitiveParamNames) :
                        /\ i + Len(SensitiveParamNames[k]) <= Len(s)
                        /\ s[i + Len(SensitiveParamNames[k])] = "="
                        /\ ToLowerCase(SubSeq(s, i, i + Len(SensitiveParamNames[k]) - 1))
                             = SensitiveParamNames[k]
                        /\ RunNotIn(s, i + Len(SensitiveParamNames[k]) + 1, ValueEnds) >= 1}
         IN  IF hits = {} THEN 0 ELSE Least(hits)

\* .replace(/(private_key|secret|key|token|password)=([^&\s]+)/gi, '$1=[REDACTED]')
RECURSIVE ReplaceKeyValues(_, _)
ReplaceKeyValues(s, i) ==
    LET hits == {j \in i..Len(s) : KeywordAt(s, j) # 0}
    IN  IF hits = {} THEN SubSeq(s, i, Len(s))
        ELSE LET j == Least(hits)
                 n == Len(SensitiveParamNames[KeywordAt(s, j)])
             IN  SubSeq(s, i, j + n - 1) \o <<"=">> \o REDACTED
                 \o ReplaceKeyValues(s, j + n + 1 + RunNotIn(s, j + n + 1, ValueEnds))

\* a faulty variant, which C11 must tell apart: the text is returned as it came
KeepString(s) == s

\* redactSensitive of a string
RedactString(s) == ReplaceKeyValues(ReplaceLongValues(ReplaceHexKeys(s, 1), 1), 1)

(***************************************************************************)
(* Values handed to the logger: a string, or an object whose entries hold  *)
(* values again.  t is typeof, s the text of a string, e the entries.      *)
(***************************************************************************)
Str(s) == [t |-> "string", s |-> s, e |-> <<>>]

Obj(entries) == [t |-> "object", s |-> <<>>, e |-> entries]

Entry(k, v) == [k |-> k, v |-> v]

\* a number, and what arithmetic on a value that is no number gives
Num(n) == [t |-> "number", n |-> n]

NaN == [t |-> "number", nan |-> TRUE]

\* typeof value === 'undefined'
NoValue == [t |-> "undefined", s |-> <<>>, e |-> <<>>]

\* key.toLowerCase().includes('key') || key.toLowerCase().includes('secret')
SensitiveKey(k) ==
    \/ Includes(ToLowerCase(k), <<"k", "e", "y">>)
    \/ Includes(ToLowerCase(k), <<"s", "e", "c", "r", "e", "t">>)

RECURSIVE redactSensitive(_)
redactSensitive(input) ==
    IF input.t = "string" THEN Str(RedactString(input.s))
    ELSE IF input.t = "object"
         THEN Obj([i \in 1..Len(input.e) |->
                    Entry(input.e[i].k,
                          IF SensitiveKey(input.e[i].k) THEN Str(REDACTED)
                          ELSE redactSensitive(input.e[i].v))])
         ELSE input

\* String(value), as Array.prototype.join applies it
ToText(v) == IF v.t = "string" THEN v.s ELSE ObjectObject

\* args.map(redactSensitive).join(' ')
RECURSIVE JoinRedacted(_, _)
JoinRedacted(args, i) ==
    IF i > Len(args) THEN <<>>
    ELSE ToText(redactSensitive(args[i]))
         \o (IF i < Len(args) THEN <<" ">> ELSE <<>>)
         \o JoinRedacted(args, i + 1)

\* the line one logger call writes to process.stderr
LogLine(tag, args) == tag \o <<" ">> \o JoinRedacted(args, 1) \o <<"\n">>

(***************************************************************************)
(* sanitizeSecrets, the masking of the entries of a mapping that the       *)
(* console wrappers of validateEnv apply.                                  *)
(***************************************************************************)
\* the sensitiveKeys array
sensitiveKeys ==
    {<<"p", "r", "i", "v", "a", "t", "e", "_", "k", "e", "y">>,
     <<"p", "r", "i", "v", "a", "t", "e", "k", "e", "y">>,
     <<"s", "e", "c", "r", "e", "t">>,
     <<"p", "a", "s", "s", "w", "o", "r", "d">>,
     <<"p", "a", "s", "s">>,
     <<"k", "e", "y">>,
     <<"t", "o", "k", "e", "n">>,
     <<"a", "u", "t", "h">>,
     <<"c", "r", "e", "d", "e", "n", "t", "i", "a", "l">>,
     <<"s", "i", "g", "n">>,
     <<"e", "n", "c", "r", "y", "p", "t">>}

\* sanitizeSecrets(obj): a copy of obj in which each string under a sensitive key
\* shows its first four and its last four characters, or nothing when it is short
sanitizeSecrets(obj) ==
    LET masked(value) ==
            IF Len(value) > 8
            THEN SubSeq(value, 1, 4) \o <<".", ".", ".">>
                 \o SubSeq(value, Len(value) - 4 + 1, Len(value))
            ELSE <<"*", "*", "*", "*", "*", "*", "*", "*">>
        sensitive(key) == \E sk \in sensitiveKeys : Includes(ToLowerCase(key), sk)
    IN  Obj([i \in 1..Len(obj.e) |->
              Entry(obj.e[i].k,
                    IF sensitive(obj.e[i].k) /\ obj.e[i].v.t = "string"
                    THEN Str(masked(obj.e[i].v.s))
                    ELSE obj.e[i].v)])

(***************************************************************************)
(* The secret store of src/env.ts and the client that consumes the key.    *)
(***************************************************************************)
VARIABLES
    envSlot,        \* process.env.RECALL_PRIVATE_KEY
    envFile,        \* the text of the .env file at ENV_FILE_PATH, NoFile if there is none
    expectedHash,   \* EXPECTED_ENV_HASH, Undefined if ENV_FILE_HASH is not set
    secretBuffer,   \* the bytes of secretBuffer, Null when it is null
    secretLoaded,   \* secretLoaded
    instance,       \* RecallClientManager.instance: the key its wallet holds, Null if none
    sink,           \* the line most recently written to process.stderr
    ret,            \* the outcome of the operation that ran last
    credential,     \* history: the key the first successful load buffered
    everLoaded,     \* history: some load has buffered a key
    loadedFrom,     \* history: the source of the last load that buffered a key
    grants,         \* history: keys handed out since the last load that buffered one
    sinkTwin,       \* the sink of the run that differs only in the credential's last digit
    codecIn,        \* the validator handed to the schema codec
    codecWire,      \* its encoding, as persisted
    codecOut,       \* the validator decoded from the encoding
    redactIn,       \* the value handed to a redactor
    redactOut,      \* what redactSensitive and sanitizeSecrets return for it
    objects,        \* the bucket of the object store: what each key holds
    result,         \* the outcome of the ToolManager call that ran last
    stored,         \* history: per tool, the storeTool call that wrote its key last
    toolManager,    \* whether toolManager of index.ts is set
    phase,          \* "boot" before main() runs, "init" while initializeToolManager
                    \* runs, "serving" once the server is connected
    dynamicTools,   \* the dynamicTools map of index.ts
    proc,           \* the request handlers in flight: where each one is suspended, and
                    \* history: the writes to the bucket its call has made
    calls           \* requests and foreign writes so far

secretVars ==
    <<envSlot, envFile, expectedHash, secretBuffer, secretLoaded, instance, ret, credential,
      everLoaded, loadedFrom, grants>>

logVars == <<sink, sinkTwin>>

codecVars == <<codecIn, codecWire, codecOut>>

redactVars == <<redactIn, redactOut>>

apiVars == <<objects, result, stored>>

serverVars == <<toolManager, phase, dynamicTools, proc, calls>>

vars == <<secretVars, logVars, codecVars, redactVars, apiVars, serverVars>>

\* values that are no text: each is a text no source text can equal
Null == <<"null">>

Undefined == <<"undefined">>

NoFile == <<"ENOENT">>

HexPrefix ==
    <<"0", "x">>

\* a private key: 64 hexadecimal digits
KeyA == [i \in 1..HexKeyLen |-> IF i = HexKeyLen THEN "1" ELSE "a"]

KeyB == [i \in 1..HexKeyLen |-> IF i = HexKeyLen THEN "1" ELSE "b"]

OxKeyA == HexPrefix \o KeyA

\* a credential that is no 64-digit key: loadSecrets takes any non-empty text
ShortKey ==
    <<"h", "u", "n", "t", "e", "r", "1">>

\* the credential of the twin run: the same but for its last digit
Twin(c) == [c EXCEPT ![Len(c)] = IF @ = "1" THEN "2" ELSE "1"]

LineNetwork ==
    <<"R", "E", "C", "A", "L", "L", "_", "N", "E", "T", "W", "O", "R", "K", "=", "t", "e", "s",
    "t", "n", "e", "t">>

\* the .env files of the model
FileWithKey == RECALL_PRIVATE_KEY \o <<"=">> \o KeyB \o <<"\n">> \o LineNetwork

FileWithShortKey ==
    LineNetwork \o <<"\n">> \o RECALL_PRIVATE_KEY \o <<" ", "=", " ">> \o ShortKey \o <<"\r">>

FileWithoutKey == LineNetwork \o <<"\n">>

FileWithEmptyKey == RECALL_PRIVATE_KEY \o <<"=", "\n">> \o LineNetwork

FileWithBlankKey == RECALL_PRIVATE_KEY \o <<"=", " ", " ", "\n">> \o LineNetwork

EnvFiles ==
    {NoFile, FileWithKey, FileWithShortKey, FileWithoutKey, FileWithEmptyKey,
     FileWithBlankKey}

\* createHash('sha256').update(content).digest('hex'): distinct texts, distinct digests
Sha256(content) == <<"sha256">> \o content

\* String.prototype.split on a one-character separator
RECURSIVE Split(_, _)
Split(s, sep) ==
    LET at == {i \in 1..Len(s) : s[i] = sep}
    IN  IF at = {} THEN <<s>>
        ELSE <<SubSeq(s, 1, Least(at) - 1)>> \o Split(SubSeq(s, Least(at) + 1, Len(s)), sep)

\* String.prototype.trim
Trim(s) ==
    LET ink == {i \in 1..Len(s) : s[i] \notin Whitespace}
    IN  IF ink = {} THEN <<>>
        ELSE SubSeq(s, Least(ink), CHOOSE j \in ink : \A k \in ink : k <= j)

\* envVars[name] after the reduce over the lines: a later line replaces an earlier one
RECURSIVE EnvVarsFrom(_, _, _)
EnvVarsFrom(lines, i, name) ==
    IF i = 0 THEN Undefined
    ELSE LET parts == Split(lines[i], "=")
         IN  IF /\ Len(parts) >= 2
                /\ parts[1] # <<>>
                /\ parts[2] # <<>>
                /\ Trim(parts[1]) = name
             THEN Trim(parts[2])
             ELSE EnvVarsFrom(lines, i - 1, name)

ParseEnvFile(content, name) ==
    LET lines == Split(content, "\n") IN EnvVarsFrom(lines, Len(lines), name)

\* JavaScript truthiness of a text that may be undefined
Truthy(s) == s # Undefined /\ s # Null /\ s # <<>>

\* the messages of the errors thrown: MissingCredential, CredentialUnavailable, the
\* error of validateEnv, SecurityViolation
Err ==
    [
     cannotProceed |-> "Cannot proceed without RECALL_PRIVATE_KEY",
     notAvailable |-> "RECALL_PRIVATE_KEY is required but not available.",
     missingRequired |-> "Missing required RECALL_PRIVATE_KEY",
     securityViolation |-> "Security violation"
    ]

NoError == "none"

\* the outcome of an operation; readFile tells whether it read the .env file
Returned(op, value) ==
    [op |-> op, err |-> NoError, cause |-> <<>>, value |-> value, readFile |-> FALSE]

Thrown(op, err, cause) ==
    [op |-> op, err |-> err, cause |-> cause, value |-> Undefined, readFile |-> FALSE]

InitSecrets ==
    /\ envSlot \in {Undefined, <<>>, KeyA, OxKeyA, ShortKey}
    /\ envFile \in EnvFiles
    /\ expectedHash \in {Undefined, Sha256(FileWithKey), Sha256(FileWithoutKey)}
    /\ secretBuffer = Null
    /\ secretLoaded = FALSE
    /\ instance = Null
    /\ sink = <<>>
    /\ sinkTwin = <<>>
    /\ ret = Returned("start", Undefined)
    /\ credential = Null
    /\ everLoaded = FALSE
    /\ loadedFrom = "none"
    /\ grants = 0

\* a faulty variant, which C6 must tell apart: the slot counts as set when it is
\* defined, also when it is empty
ExternalKeyDefined(slot) == slot # Undefined

\* if (externalKey)
ExternalKeyPresent(slot) == Truthy(slot)

\* a faulty variant, which C2 must tell apart: the load publishes the key in the
\* slot, as dotenv would
SlotHoldsKey(key) == key

\* process.env.RECALL_PRIVATE_KEY = '[REDACTED]' after the key is buffered
SlotAfterLoad(key) == REDACTED

\* a faulty variant, which C18 must tell apart: the hash of the file is not checked
IntegrityUnchecked(file, hash) == FALSE

\* if (EXPECTED_ENV_HASH) { ... if (fileHash !== EXPECTED_ENV_HASH) throw
IntegrityFails(file, hash) == Truthy(hash) /\ Sha256(file) # hash

\* the try block of loadSecrets: the key of the .env file, or the message thrown
ReadEnvFile(file, hash) ==
    IF file = NoFile
    THEN [ok |-> FALSE, key |-> Undefined,
          message |-> EnvText.noSuchFile \o <<"'">> \o ENV_FILE_PATH \o <<"'">>]
    ELSE IF IntegrityFails(file, hash)
    THEN [ok |-> FALSE, key |-> Undefined, message |-> EnvText.integrity]
    ELSE LET envKey == ParseEnvFile(file, RECALL_PRIVATE_KEY)
         IN  IF ~Truthy(envKey)
             THEN [ok |-> FALSE, key |-> Undefined, message |-> EnvText.notInFile]
             ELSE [ok |-> TRUE, key |-> envKey, message |-> <<>>]

\* loadSecrets()
LoadSecrets ==
    IF secretLoaded
    THEN /\ ret' = Returned("loadSecrets", Undefined)
         /\ UNCHANGED <<codecVars, redactVars, apiVars, serverVars>>
         /\ UNCHANGED <<envSlot, envFile, expectedHash, secretBuffer, secretLoaded, instance,
                        sink, credential, everLoaded, loadedFrom, grants, sinkTwin>>
    ELSE LET external == ExternalKeyPresent(envSlot)
             fromFile == ReadEnvFile(envFile, expectedHash)
             key == IF external THEN envSlot ELSE fromFile.key
             line == IF external
                     THEN LogLine(Tag.info, <<Str(EnvText.usingExternal)>>)
                     ELSE IF fromFile.ok
                     THEN LogLine(Tag.info, <<Str(EnvText.loadedFromFile \o ENV_FILE_PATH)>>)
                     ELSE LogLine(Tag.error, <<Str(EnvText.failedToLoad \o fromFile.message)>>)
         IN  /\ sink' = line
             /\ sinkTwin' = line
             /\ UNCHANGED <<codecVars, redactVars, apiVars, serverVars>>
             /\ UNCHANGED <<envFile, expectedHash, instance>>
             /\ IF external \/ fromFile.ok
                THEN /\ secretBuffer' = key
                     /\ envSlot' = SlotAfterLoad(key)
                     /\ secretLoaded' = TRUE
                     /\ ret' = [Returned("loadSecrets", Undefined) EXCEPT
                                  !.readFile = ~external]
                     /\ credential' = IF everLoaded THEN credential ELSE key
                     /\ everLoaded' = TRUE
                     /\ loadedFrom' = IF external THEN "external" ELSE ".env"
                     /\ grants' = 0
                ELSE /\ ret' = [Thrown("loadSecrets", Err.cannotProceed, fromFile.message)
                                  EXCEPT !.readFile = TRUE]
                     /\ UNCHANGED <<envSlot, secretBuffer, secretLoaded, credential,
                                    everLoaded, loadedFrom, grants>>

\* a faulty variant, which C3 must tell apart: the guard of getPrivateKey() never fires
NeverUnavailable(buf) == FALSE

\* if (!secretBuffer)
Unavailable(buf) == buf = Null

\* a faulty variant, which C1 must tell apart: getPrivateKey() forgets to drop the buffer
BufferKept(buf) == buf

\* secretBuffer after sodium_memzero, sodium_munlock and secretBuffer = null
BufferAfterConsume(buf) == Null

\* what getPrivateKey() does to the store, and what it hands back
ConsumeKey(op) ==
    IF Unavailable(secretBuffer)
    THEN /\ ret' = Thrown(op, Err.notAvailable, <<>>)
         /\ UNCHANGED <<secretBuffer, secretLoaded, grants>>
    ELSE /\ ret' = Returned(op, secretBuffer)
         /\ secretBuffer' = BufferAfterConsume(secretBuffer)
         /\ secretLoaded' = FALSE
         /\ grants' = grants + 1

\* getPrivateKey() of env.ts, called by any module that imports it
GetPrivateKey ==
    /\ ConsumeKey("getPrivateKey")
    /\ UNCHANGED <<codecVars, redactVars, apiVars, serverVars>>
    /\ UNCHANGED <<envSlot, envFile, expectedHash, instance, sink, credential, everLoaded,
                   loadedFrom, sinkTwin>>

\* the key as the constructor hands it to walletClientFromPrivateKey
FormatPrivateKey(raw) == IF StartsWith(raw, HexPrefix) THEN raw ELSE HexPrefix \o raw

\* RecallClientManager.getInstance(): the constructor runs when there is no instance yet
GetInstance ==
    /\ UNCHANGED <<codecVars, redactVars, apiVars, serverVars>>
    /\ UNCHANGED <<envSlot, envFile, expectedHash, sink, credential, everLoaded, loadedFrom,
                   sinkTwin>>
    /\ IF instance # Null
       THEN /\ ret' = Returned("getInstance", Undefined)
            /\ UNCHANGED <<secretBuffer, secretLoaded, grants, instance>>
       ELSE IF ~secretLoaded /\ secretBuffer = Null
       THEN /\ ret' = Thrown("getInstance", Err.missingRequired, <<>>)
            /\ UNCHANGED <<secretBuffer, secretLoaded, grants, instance>>
       ELSE /\ ConsumeKey("getInstance")
            /\ instance' = IF Unavailable(secretBuffer) THEN instance
                           ELSE FormatPrivateKey(secretBuffer)

\* a faulty variant, which C4 must tell apart: the accessor hands back what the client holds
LeakingAccessor(op, held) == Returned(op, held)

\* what a guarded accessor of RecallClientManager does with the key the client holds
GuardedAccessor(op, held) == Thrown(op, Err.securityViolation, <<>>)

\* RecallClientManager.getPrivateKey()
ManagerGetPrivateKey ==
    /\ instance # Null
    /\ ret' = GuardedAccessor("RecallClientManager.getPrivateKey", instance)
    /\ UNCHANGED <<codecVars, redactVars, apiVars, serverVars>>
    /\ UNCHANGED <<envSlot, envFile, expectedHash, secretBuffer, secretLoaded, instance,
                   sink, credential, everLoaded, loadedFrom, grants, sinkTwin>>

\* RecallClientManager.getEnvironmentVariables()
ManagerGetEnvironmentVariables ==
    /\ instance # Null
    /\ ret' = GuardedAccessor("RecallClientManager.getEnvironmentVariables", envSlot)
    /\ UNCHANGED <<codecVars, redactVars, apiVars, serverVars>>
    /\ UNCHANGED <<envSlot, envFile, expectedHash, secretBuffer, secretLoaded, instance,
                   sink, credential, everLoaded, loadedFrom, grants, sinkTwin>>

(***************************************************************************)
(* Calls of logger.error / warn / info by code that holds the credential c *)
(***************************************************************************)
\* texts a caller of the logger puts around the credential
CallerText ==
    [
     configLoaded |-> <<"C", "o", "n", "f", "i", "g", "u", "r", "a", "t", "i", "o", "n",
        " ", "l", "o", "a", "d", "e", "d", ":" >>,
     assign |-> <<"R", "E", "C", "A", "L", "L", "_", "P", "R", "I", "V", "A", "T", "E",
        "_", "K", "E", "Y", "=" >>,
     hexBlob |-> <<"d", "e", "a", "d", "b", "e", "e", "f" >>,
     invalidKey |-> <<"E", "r", "r", "o", "r", ":", " ", "i", "n", "v", "a", "l", "i", "d",
        " ", "k", "e", "y" >>,
     config |-> <<"c", "o", "n", "f", "i", "g" >>,
     privateKeyField |-> <<"p", "r", "i", "v", "a", "t", "e", "K", "e", "y" >>,
     wallet |-> <<"w", "a", "l", "l", "e", "t" >>,
     value |-> <<"v", "a", "l", "u", "e" >>
    ]

LogCalls == {"plain", "bare", "assign", "hexblob", "sentence", "object", "nested"}

LoggerArgs(call, c) ==
    CASE call = "plain" -> <<Str(CallerText.configLoaded)>>
      [] call = "bare" -> <<Str(c)>>
      [] call = "assign" -> <<Str(CallerText.assign \o c)>>
      [] call = "hexblob" -> <<Str(CallerText.hexBlob \o c)>>
      [] call = "sentence" -> <<Str(CallerText.invalidKey), Str(c)>>
      [] call = "object" ->
            <<Str(CallerText.config), Obj(<<Entry(CallerText.privateKeyField, Str(c))>>)>>
      [] call = "nested" ->
            <<Obj(<<Entry(CallerText.wallet, Obj(<<Entry(CallerText.value, Str(c))>>))>>)>>

\* logger.error(...args), logger.warn(...args), logger.info(...args)
LoggerCall ==
    /\ credential # Null
    /\ \E tag \in {Tag.error, Tag.warn, Tag.info}, call \in LogCalls :
          /\ sink' = LogLine(tag, LoggerArgs(call, credential))
          /\ sinkTwin' = LogLine(tag, LoggerArgs(call, Twin(credential)))
    /\ ret' = Returned("logger", Undefined)
    /\ UNCHANGED <<codecVars, redactVars, apiVars, serverVars>>
    /\ UNCHANGED <<envSlot, envFile, expectedHash, secretBuffer, secretLoaded, instance,
                   credential, everLoaded, loadedFrom, grants>>


(***************************************************************************)
(* The schema codec of src/tool-manager.ts.  A validator is a zod object:  *)
(* cls is its class, inner the class a ZodOptional wraps, description its  *)
(* description ("" when it has none).                                      *)
(***************************************************************************)
RecognisedClasses == {"ZodString", "ZodNumber", "ZodBoolean", "ZodArray", "ZodObject"}

Validator(cls, description) == [cls |-> cls, inner |-> "none", description |-> description]

\* validator.optional(): a ZodOptional around the validator, with its description
Optional(v) == [cls |-> "ZodOptional", inner |-> v.cls, description |-> v.description]

\* validator.isOptional(): whether the validator accepts undefined
isOptional(v) == v.cls \in {"ZodOptional", "ZodAny"}

\* the validators of the model: of the five classes the codec names and of two it
\* does not, with and without a description, required and optional
Validators ==
    LET classes == RecognisedClasses \cup {"ZodAny", "ZodEnum"}
        descriptions == {"", "the value", "an id"}
        plain == {Validator(c, d) : c \in classes, d \in descriptions}
    IN  plain \cup {Optional(v) : v \in plain}

\* the type tag of the instanceof chain
TypeTagOf(cls) ==
    CASE cls = "ZodString" -> "string"
      [] cls = "ZodNumber" -> "number"
      [] cls = "ZodBoolean" -> "boolean"
      [] cls = "ZodArray" -> "array"
      [] cls = "ZodObject" -> "object"
      [] OTHER -> "unknown"

\* extractZodSchemaInfo(validator); required is "undefined" where the result has no
\* such field
extractZodSchemaInfo(validator) ==
    IF validator.cls \in RecognisedClasses
    THEN [type |-> TypeTagOf(validator.cls),
          description |-> validator.description,
          required |-> IF isOptional(validator) THEN "false" ELSE "true"]
    ELSE [type |-> "unknown", description |-> validator.description,
          required |-> "undefined"]

\* the class createZodValidatorFromSchema builds for a type tag
ClassOfTag(type) ==
    CASE type = "string" -> "ZodString"
      [] type = "number" -> "ZodNumber"
      [] type = "boolean" -> "ZodBoolean"
      [] type = "array" -> "ZodArray"
      [] type = "object" -> "ZodObject"
      [] OTHER -> "ZodAny"

\* createZodValidatorFromSchema(schema)
createZodValidatorFromSchema(schema) ==
    LET validator == Validator(ClassOfTag(schema.type), schema.description)
    IN  IF schema.required = "false" THEN Optional(validator) ELSE validator

NoValidator == [cls |-> "none", inner |-> "none", description |-> ""]

NoSchemaInfo == [type |-> "none", description |-> "", required |-> "undefined"]

(***************************************************************************)
(* The tool registry: ToolManager of src/tool-manager.ts over the bucket   *)
(* of the object store.                                                    *)
(***************************************************************************)
ToolsPrefix ==
    <<"t", "o", "o", "l", "s", "/">>

NameEcho ==
    <<"e", "c", "h", "o">>

\* a tool name of 32 characters
NameLong ==
    <<"g", "e", "t", "_", "h", "i", "s", "t", "o", "r", "i", "c", "a", "l", "_", "c", "r", "y",
    "p", "t", "o", "_", "p", "r", "i", "c", "e", "_", "d", "a", "t", "a">>

ToolNames == {NameEcho, NameLong}

\* the names of the tools index.ts defines itself
RECALL_TOOLS ==
    <<
     <<"g", "e", "t", "_", "a", "c", "c", "o", "u", "n", "t">>,
     <<"g", "e", "t", "_", "b", "a", "l", "a", "n", "c", "e">>,
     <<"b", "u", "y", "_", "c", "r", "e", "d", "i", "t">>,
     <<"l", "i", "s", "t", "_", "b", "u", "c", "k", "e", "t", "s">>,
     <<"c", "r", "e", "a", "t", "e", "_", "b", "u", "c", "k", "e", "t">>,
     <<"l", "i", "s", "t", "_", "b", "u", "c", "k", "e", "t", "_", "o", "b", "j", "e", "c",
       "t", "s">>,
     <<"g", "e", "t", "_", "o", "b", "j", "e", "c", "t">>,
     <<"a", "d", "d", "_", "o", "b", "j", "e", "c", "t">>,
     <<"s", "e", "c", "u", "r", "i", "t", "y", "_", "g", "u", "i", "d", "a", "n", "c", "e">>,
     <<"s", "t", "o", "r", "e", "_", "t", "o", "o", "l", "_", "f", "u", "n", "c", "t", "i",
       "o", "n">>,
     <<"s", "t", "o", "r", "e", "_", "t", "o", "o", "l", "_", "t", "e", "m", "p", "l", "a",
       "t", "e">>,
     <<"l", "i", "s", "t", "_", "d", "y", "n", "a", "m", "i", "c", "_", "t", "o", "o", "l",
       "s">>
    >>

\* the built-in name a caller may give to a tool of its own
NameBuiltin == RECALL_TOOLS[1]

\* the names a key of the bucket or an entry of the map may stand under
AllNames == ToolNames \cup {NameBuiltin}

OtherKey ==
    <<"n", "o", "t", "e", "s", "/", "r", "e", "a", "d", "m", "e">>

\* `tools/${toolName}`
KeyOf(toolName) == ToolsPrefix \o toolName

\* the keys of the bucket, in the order a query of the bucket lists them
KeyOrder == <<KeyOf(NameEcho), KeyOf(NameBuiltin), KeyOf(NameLong), OtherKey>>

Keys == {KeyOrder[i] : i \in 1..Len(KeyOrder)}

TplApiCall ==
    <<"a", "p", "i", "_", "c", "a", "l", "l">>

TplTransformation ==
    <<"t", "r", "a", "n", "s", "f", "o", "r", "m", "a", "t", "i", "o", "n">>

TplUnknown ==
    <<"w", "e", "b", "h", "o", "o", "k">>

\* the texts the ToolManager returns and throws
ManagerText ==
    [
     tool |-> <<"T", "o", "o", "l", " " >>,
     notFound |-> <<" ", "n", "o", "t", " ", "f", "o", "u", "n", "d" >>,
     jsonError |-> <<"U", "n", "e", "x", "p", "e", "c", "t", "e", "d", " ", "t", "o", "k",
        "e", "n", " ", "o", " ", "i", "n", " ", "J", "S", "O", "N", " ", "a", "t", " ",
        "p", "o", "s", "i", "t", "i", "o", "n", " ", "1" >>,
     entriesOfUndefined |-> <<"C", "a", "n", "n", "o", "t", " ", "c", "o", "n", "v", "e",
        "r", "t", " ", "u", "n", "d", "e", "f", "i", "n", "e", "d", " ", "o", "r", " ",
        "n", "u", "l", "l", " ", "t", "o", " ", "o", "b", "j", "e", "c", "t" >>,
     reconstruct |-> <<"F", "a", "i", "l", "e", "d", " ", "t", "o", " ", "r", "e", "c",
        "o", "n", "s", "t", "r", "u", "c", "t", " ", "f", "u", "n", "c", "t", "i", "o",
        "n", " ", "f", "o", "r", " ", "t", "o", "o", "l", " " >>,
     syntaxError |-> <<"S", "y", "n", "t", "a", "x", "E", "r", "r", "o", "r", ":", " ",
        "U", "n", "e", "x", "p", "e", "c", "t", "e", "d", " ", "t", "o", "k", "e", "n" >>,
     unknownTemplate |-> <<"U", "n", "k", "n", "o", "w", "n", " ", "t", "e", "m", "p", "l",
        "a", "t", "e", " ", "t", "y", "p", "e", ":", " " >>,
     stored |-> <<" ", "s", "t", "o", "r", "e", "d", " ", "s", "u", "c", "c", "e", "s",
        "s", "f", "u", "l", "l", "y" >>,
     templated |-> <<"T", "e", "m", "p", "l", "a", "t", "e", "d", " ", "t", "o", "o", "l",
        " " >>
    ]

(***************************************************************************)
(* Source text and functions.  A source text is known by its form: a       *)
(* function expression ("function"), a reference to a built-in function    *)
(* ("reference"), the text toString gives for a built-in or bound function *)
(* ("native"), a method shorthand ("method"), an expression whose value is *)
(* no function ("value"), the empty text ("empty"), or text that does not  *)
(* parse ("garbage").  behaviour names what the function computes, and     *)
(* free tells whether a function expression reads a variable of the scope  *)
(* it was written in.  A function is its text and whether that scope is    *)
(* with it ("closure") or it was evaluated at global scope ("global").     *)
(***************************************************************************)
Source(form, behaviour, free) == [form |-> form, behaviour |-> behaviour, free |-> free]

EmptySource == Source("empty", "none", FALSE)

\* source texts: (args) => Object.values(args)[0]; (args) => base +
\* Object.values(args)[0], base a variable of the defining scope that holds 1;
\* Math.max; function max() { [native code] }; function (; 42; (args) => args
Src ==
    [
     number |-> Source("value", "none", FALSE),
     identity |-> Source("function", "identity", FALSE),
     echo |-> Source("function", "first", FALSE),
     addBase |-> Source("function", "addBase", TRUE),
     mathMax |-> Source("reference", "max", FALSE),
     native |-> Source("native", "max", FALSE),
     garbage |-> Source("garbage", "none", FALSE)
    ]

\* the config of a templated tool: its operation and its inputField, empty where it
\* has none; NoConfig where a descriptor has no config at all
Config(operation, inputField) ==
    [present |-> TRUE, operation |-> operation, inputField |-> inputField,
     endpoint |-> <<>>, method |-> <<>>]

NoConfig ==
    [present |-> FALSE, operation |-> "", inputField |-> <<>>,
     endpoint |-> <<>>, method |-> <<>>]

\* the config of an api_call tool: its endpoint and its method, empty where it has
\* none
ApiConfig(endpoint, method) ==
    [Config("", <<>>) EXCEPT !.endpoint = endpoint, !.method = method]

MethodGet == <<"G", "E", "T">>

MethodPost == <<"P", "O", "S", "T">>

\* a value of the program that is a function, or is not
Fn(text, scope) ==
    [via |-> "function", text |-> text, scope |-> scope, templateType |-> <<>>,
     config |-> NoConfig]

NotCallable(text) ==
    [via |-> "value", text |-> text, scope |-> "global", templateType |-> <<>>,
     config |-> NoConfig]

\* the function createFunctionFromTemplate returns
FromTemplate(templateType, config) ==
    [via |-> "template", text |-> EmptySource, scope |-> "global",
     templateType |-> templateType, config |-> config]

Functions == {Fn(Src.echo, "closure"), Fn(Src.addBase, "closure"), Fn(Src.mathMax, "global")}

\* Function.prototype.toString: the source text of a function written in the
\* program, "function max() { [native code] }" for a built-in
FunctionToString(f) == IF f.text.form = "reference" THEN Src.native ELSE f.text

\* new Function(`return ${text}`)(): the value, or that the text did not compile
Evaluate(text) ==
    IF text.form \in {"method", "native", "garbage"}
    THEN [threw |-> TRUE, value |-> NotCallable(text)]
    ELSE IF text.form \in {"function", "reference"}
    THEN [threw |-> FALSE, value |-> Fn(text, "global")]
    ELSE [threw |-> FALSE, value |-> NotCallable(text)]

\* the args object of a call: its entries, in the order Object.keys lists them
ArgLists ==
    {<<Entry(<<"x">>, Num(42))>>,
     <<Entry(<<"x">>, Num(7)), Entry(<<"y">>, Num(42))>>,
     <<Entry(<<"t", "e", "x", "t">>, Str(<<"a", "b">>))>>,
     <<Entry(<<"t", "e", "x", "t">>, Str(<<" ", "A", "b", " ">>)),
       Entry(<<"m", "o", "d", "e">>, Str(<<"4", "2">>))>>,
     <<Entry(<<"m", "o", "d", "e">>, Str(<<"\"", "O", "k", "\"">>)),
       Entry(<<"t", "e", "x", "t">>, Str(<<"{", "o">>))>>,
     <<>>}

\* a faulty variant, which C13 must tell apart: the letters keep their case
SameCase(s) == s

\* String.prototype.toUpperCase
ToUpperCase(s) ==
    [i \in 1..Len(s) |->
        IF \E u \in DOMAIN LowerOf : LowerOf[u] = s[i]
        THEN CHOOSE u \in DOMAIN LowerOf : LowerOf[u] = s[i]
        ELSE s[i]]

\* the number a text of decimal digits denotes
RECURSIVE DecimalOf(_)
DecimalOf(s) ==
    LET digits == <<"0", "1", "2", "3", "4", "5", "6", "7", "8", "9">>
    IN  IF s = <<>> THEN 0
        ELSE 10 * DecimalOf(SubSeq(s, 1, Len(s) - 1))
             + (CHOOSE d \in 1..10 : digits[d] = s[Len(s)]) - 1

\* JSON.parse(text), for the JSON texts of the model: a number without sign or
\* fraction, a string without escapes, the empty object; other text is a SyntaxError
ParseJson(text) ==
    LET s == Trim(text)
        isCharIn(S) == \A i \in 1..Len(s) : s[i] \in S
        digits == {"0", "1", "2", "3", "4", "5", "6", "7", "8", "9"}
    IN  IF s # <<>> /\ isCharIn(digits) /\ (Len(s) = 1 \/ s[1] # "0")
        THEN [threw |-> "none", value |-> Num(DecimalOf(s))]
        ELSE IF /\ Len(s) >= 2
                /\ s[1] = "\""
                /\ s[Len(s)] = "\""
                /\ \A i \in 2..(Len(s) - 1) : s[i] \notin {"\"", "\\", "\n", "\t", "\r"}
        THEN [threw |-> "none", value |-> Str(SubSeq(s, 2, Len(s) - 1))]
        ELSE IF s = <<"{", "}">>
        THEN [threw |-> "none", value |-> Obj(<<>>)]
        ELSE [threw |-> "SyntaxError", value |-> NoValue]

\* args[key]
Property(args, key) ==
    LET at == {i \in 1..Len(args) : args[i].k = key}
    IN  IF at = {} THEN NoValue ELSE args[Least(at)].v

\* Object.values(args)[0]
FirstValue(args) == IF args = <<>> THEN NoValue ELSE args[1].v

\* the function the 'transformation' case returns, applied to args
Transform(config, args) ==
    LET inputField ==
            IF config.inputField # <<>> THEN config.inputField
            ELSE IF args = <<>> THEN Undefined ELSE args[1].k
        input == Property(args, inputField)
        isString == input.t = "string"
        returns(value) == [threw |-> "none", value |-> value]
    IN  CASE config.operation = "uppercase" ->
                returns(IF isString THEN Str(ToUpperCase(input.s)) ELSE input)
          [] config.operation = "lowercase" ->
                returns(IF isString THEN Str(ToLowerCase(input.s)) ELSE input)
          [] config.operation = "trim" ->
                returns(IF isString THEN Str(Trim(input.s)) ELSE input)
          [] config.operation = "parse_json" ->
                IF isString THEN ParseJson(input.s) ELSE returns(input)
          [] OTHER -> returns(input)

\* a digit as text
CountText(n) == <<(<<"0", "1", "2", "3", "4", "5", "6", "7", "8", "9">>)[n + 1]>>

\* String(n) of a number that is no NaN
RECURSIVE DecimalText(_)
DecimalText(n) ==
    IF n < 10 THEN CountText(n) ELSE DecimalText(n \div 10) \o CountText(n % 10)

\* JSON.stringify(value, null, 2) of a number, a text, or an object whose values are
\* numbers and texts
RECURSIVE JsonStringify(_)
JsonStringify(value) ==
    LET escaped(ch) == IF ch \in {"\"", "\\"} THEN <<"\\", ch>> ELSE <<ch>>
        quoted(text, i) ==
            LET RECURSIVE from(_)
                from(j) == IF j > Len(text) THEN <<>> ELSE escaped(text[j]) \o from(j + 1)
            IN  <<"\"">> \o from(i) \o <<"\"">>
        kept == SelectSeq(value.e, LAMBDA entry : entry.v.t # "undefined")
        member(entry) ==
            <<" ", " ">> \o quoted(entry.k, 1) \o <<":", " ">> \o JsonStringify(entry.v)
        members ==
            LET RECURSIVE from(_)
                from(j) == IF j > Len(kept) THEN <<>>
                           ELSE member(kept[j])
                                \o (IF j < Len(kept) THEN <<",", "\n">> ELSE <<>>)
                                \o from(j + 1)
            IN  from(1)
    IN  CASE value.t = "number" ->
                IF value = NaN THEN <<"n", "u", "l", "l">> ELSE DecimalText(value.n)
          [] value.t = "string" -> quoted(value.s, 1)
          [] value.t = "object" ->
                IF kept = <<>> THEN <<"{", "}">>
                ELSE <<"{", "\n">> \o members \o <<"\n", "}">>

\* JSON.stringify(value) of a number, a text, or an object whose values are numbers
\* and texts
RECURSIVE JsonCompact(_)
JsonCompact(value) ==
    LET escaped(ch) == IF ch \in {"\"", "\\"} THEN <<"\\", ch>> ELSE <<ch>>
        quoted(text) ==
            LET RECURSIVE from(_)
                from(j) == IF j > Len(text) THEN <<>> ELSE escaped(text[j]) \o from(j + 1)
            IN  <<"\"">> \o from(1) \o <<"\"">>
        kept == SelectSeq(value.e, LAMBDA entry : entry.v.t # "undefined")
        members ==
            LET RECURSIVE from(_)
                from(j) == IF j > Len(kept) THEN <<>>
                           ELSE quoted(kept[j].k) \o <<":">> \o JsonCompact(kept[j].v)
                                \o (IF j < Len(kept) THEN <<",">> ELSE <<>>)
                                \o from(j + 1)
            IN  from(1)
    IN  CASE value.t = "number" ->
                IF value = NaN THEN <<"n", "u", "l", "l">> ELSE DecimalText(value.n)
          [] value.t = "string" -> quoted(value.s)
          [] value.t = "object" -> <<"{">> \o members \o <<"}">>

\* String(value)
StringOf(value) ==
    CASE value.t = "string" -> value.s
      [] value.t = "undefined" -> Undefined
      [] value.t = "number" -> IF value = NaN THEN <<"N", "a", "N">> ELSE DecimalText(value.n)
      [] OTHER -> ObjectObject

\* whether a value is truthy
TruthyValue(value) ==
    CASE value.t = "undefined" -> FALSE
      [] value.t = "string" -> value.s # <<>>
      [] value.t = "number" -> value # NaN /\ value.n # 0
      [] OTHER -> TRUE

\* endpoint.replace(/\{([^}]+)\}/g, (_, key) => args[key])
RECURSIVE ReplacePlaceholders(_, _)
ReplacePlaceholders(endpoint, args) ==
    LET closing == {j \in 2..Len(endpoint) : endpoint[j] = "}"}
    IN  IF endpoint = <<>> THEN <<>>
        ELSE IF endpoint[1] = "{" /\ closing # {} /\ Least(closing) > 2
        THEN StringOf(Property(args, SubSeq(endpoint, 2, Least(closing) - 1)))
             \o ReplacePlaceholders(SubSeq(endpoint, Least(closing) + 1, Len(endpoint)),
                                    args)
        ELSE <<endpoint[1]>> \o ReplacePlaceholders(Tail(endpoint), args)

\* the url and the init the function of the 'api_call' case hands to fetch; body is
\* NoValue where the init has no body
ApiRequest(config, args) ==
    LET body == Property(args, <<"b", "o", "d", "y">>)
    IN  [url |-> ReplacePlaceholders(config.endpoint, args),
         method |-> IF config.method # <<>> THEN config.method ELSE MethodGet,
         contentType |-> "application/json",
         body |-> IF config.method # MethodGet /\ TruthyValue(body)
                  THEN Str(JsonCompact(body))
                  ELSE NoValue]

\* the function the 'api_call' case returns, applied to args: a config without an
\* endpoint has nothing to replace in, fetch refuses a GET that has a body, and the
\* value is the response to the request
ApiCall(config, args) ==
    LET request == ApiRequest(config, args)
    IN  IF config.endpoint = <<>> THEN [threw |-> "TypeError", value |-> NoValue]
        ELSE IF request.method = MethodGet /\ request.body # NoValue
        THEN [threw |-> "TypeError", value |-> NoValue]
        ELSE [threw |-> "none", value |-> [t |-> "response", of |-> request]]

\* implementation(args): the value returned, or the error thrown.  Math.max takes
\* the args object for a number; base + value adds numbers and joins texts
Invoke(f, args) ==
    LET first == FirstValue(args)
    IN  IF f.via = "value" THEN [threw |-> "TypeError", value |-> NoValue]
        ELSE IF f.via = "template"
        THEN IF f.templateType = TplTransformation
             THEN Transform(f.config, args)
             ELSE IF f.templateType = TplApiCall
             THEN ApiCall(f.config, args)
             ELSE [threw |-> "none", value |-> [t |-> "response", of |-> f.config]]
        ELSE IF f.text.behaviour = "max"
        THEN [threw |-> "none", value |-> NaN]
        ELSE IF f.text.free /\ f.scope = "global"
        THEN [threw |-> "ReferenceError", value |-> NoValue]
        ELSE IF f.text.behaviour = "addBase"
        THEN [threw |-> "none",
              value |-> CASE first.t = "number" -> Num(first.n + 1)
                          [] first.t = "string" -> Str(<<"1">> \o first.s)
                          [] OTHER -> NaN]
        ELSE IF f.text.behaviour = "identity"
        THEN [threw |-> "none", value |-> Obj(args)]
        ELSE [threw |-> "none", value |-> first]

(***************************************************************************)
(* Parameter schemas and persisted descriptors.                            *)
(***************************************************************************)
\* a Record<string, ZodTypeAny>, as Object.entries lists it
Param(name, validator) == [name |-> name, validator |-> validator]

SchemaX == <<Param("x", Validator("ZodNumber", ""))>>

ParamSchemas ==
    {SchemaX,
     <<Param("text", Validator("ZodString", "the value")),
       Param("mode", Optional(Validator("ZodString", "")))>>}

ParamNames(schema) == [i \in 1..Len(schema) |-> schema[i].name]

\* a faulty variant, which C22 must tell apart: the descriptor is written before
\* the schema entries are encoded
SchemaNotEncoded(paramSchema) == <<>>

\* the loop over Object.entries(paramSchema) of storeTool and storeTemplatedTool
SerializeSchema(paramSchema) ==
    [i \in 1..Len(paramSchema) |->
        [name |-> paramSchema[i].name, info |-> extractZodSchemaInfo(paramSchema[i].validator)]]

\* what a key of the bucket holds: nothing ("absent"), the JSON text of a
\* descriptor ("json"), or text that is no JSON ("text")
Absent ==
    [kind |-> "absent", name |-> <<>>, functionBody |-> EmptySource, hasSchema |-> FALSE,
     schema |-> <<>>, templateType |-> <<>>, config |-> NoConfig]

NotJson == [Absent EXCEPT !.kind = "text"]

\* JSON.stringify(serializedTool, null, 2), encoded; fields that are undefined are
\* left out of the text
Descriptor(name, functionBody, schema, templateType, config) ==
    [kind |-> "json", name |-> name, functionBody |-> functionBody, hasSchema |-> TRUE,
     schema |-> schema, templateType |-> templateType, config |-> config]

\* the descriptor storeTool writes
SerializedTool(toolName, paramSchema, functionImplementation) ==
    Descriptor(toolName, FunctionToString(functionImplementation),
               SerializeSchema(paramSchema), <<>>, NoConfig)

\* the descriptor storeTemplatedTool writes
SerializedTemplatedTool(toolName, paramSchema, templateType, config) ==
    Descriptor(toolName, EmptySource, SerializeSchema(paramSchema), templateType, config)

\* recallClient.addObject(bucket, key, data, { overwrite: true })
PutObject(store, key, data) == [store EXCEPT ![key] = data]

\* a faulty variant, which C8 must tell apart: the check for a missing object is skipped
NeverNotFound(data) == FALSE

\* if (!toolDataBinary)
NotFound(data) == data.kind = "absent"

\* the outcome of loadTool: the tool, or the error thrown and its message
Loaded(name, schema, implementation) ==
    [ok |-> TRUE, kind |-> "none", message |-> <<>>,
     tool |-> [name |-> name, schema |-> schema, implementation |-> implementation]]

NoTool == [name |-> <<>>, schema |-> <<>>, implementation |-> NotCallable(EmptySource)]

LoadFailed(kind, message) == [ok |-> FALSE, kind |-> kind, message |-> message, tool |-> NoTool]

\* a faulty variant, which C15 must tell apart: every template type has a case
AnyTemplate == {TplApiCall, TplTransformation, TplUnknown}

\* the cases of the switch of createFunctionFromTemplate
KnownTemplates == {TplApiCall, TplTransformation}

\* loadTool(toolName) against the bucket
loadTool(store, toolName) ==
    LET data == store[KeyOf(toolName)]
        zodSchema == [i \in 1..Len(data.schema) |->
                        Param(data.schema[i].name,
                              createZodValidatorFromSchema(data.schema[i].info))]
        built == Evaluate(data.functionBody)
    IN  IF NotFound(data)
        THEN LoadFailed("ToolNotFound", ManagerText.tool \o toolName \o ManagerText.notFound)
        ELSE IF data.kind = "text"
        THEN LoadFailed("SyntaxError", ManagerText.jsonError)
        ELSE IF ~data.hasSchema
        THEN LoadFailed("TypeError", ManagerText.entriesOfUndefined)
        ELSE IF data.templateType # <<>>
        THEN IF data.templateType \in KnownTemplates
             THEN Loaded(data.name, zodSchema, FromTemplate(data.templateType, data.config))
             ELSE LoadFailed("UnknownTemplate", ManagerText.unknownTemplate \o data.templateType)
        ELSE IF built.threw
        THEN LoadFailed("InvalidFunctionBody",
                        ManagerText.reconstruct \o toolName \o <<":", " ">>
                        \o ManagerText.syntaxError)
        ELSE Loaded(data.name, zodSchema, built.value)

\* key.replace('tools/', ''): the first occurrence of the prefix is taken out
StripPrefix(key) ==
    LET at == {i \in 1..Len(key) : MatchAt(key, i, ToolsPrefix)}
    IN  IF at = {} THEN key
        ELSE SubSeq(key, 1, Least(at) - 1)
             \o SubSeq(key, Least(at) + Len(ToolsPrefix), Len(key))

\* the keys the bucket holds, in listing order
RECURSIVE ListedKeys(_, _)
ListedKeys(store, i) ==
    IF i > Len(KeyOrder) THEN <<>>
    ELSE (IF store[KeyOrder[i]].kind = "absent" THEN <<>> ELSE <<KeyOrder[i]>>)
         \o ListedKeys(store, i + 1)

\* listTools(): filter on the prefix, then strip it
listTools(store) ==
    LET keys == SelectSeq(ListedKeys(store, 1), LAMBDA k : StartsWith(k, ToolsPrefix))
    IN  [i \in 1..Len(keys) |-> StripPrefix(keys[i])]

(***************************************************************************)
(* Bounds of the model.                                                    *)
(***************************************************************************)
\* request handlers that may be in flight at once
NumHandlers == 2

\* requests and foreign writes in one run
MaxCalls == 2

(***************************************************************************)
(* Initial states.  The registry runs in a process whose secret store has  *)
(* been through its start: the key came from the external environment and  *)
(* the RecallClientManager the ToolManager uses has consumed it.           *)
(***************************************************************************)
SecretsStarted ==
    /\ envSlot = REDACTED
    /\ envFile = NoFile
    /\ expectedHash = Undefined
    /\ secretBuffer = Null
    /\ secretLoaded = FALSE
    /\ instance = OxKeyA
    /\ ret = Returned("getInstance", OxKeyA)
    /\ credential = OxKeyA
    /\ everLoaded = TRUE
    /\ loadedFrom = "external"
    /\ grants = 1
    /\ sink = LogLine(Tag.info, <<Str(EnvText.usingExternal)>>)
    /\ sinkTwin = sink

NoResult ==
    [op |-> "start", arg |-> <<>>, ok |-> TRUE, kind |-> "none", message |-> <<>>,
     tool |-> NoTool, names |-> <<>>]

\* a tool no storeTool call stands for
NoCall ==
    [made |-> FALSE, paramSchema |-> <<>>,
     functionImplementation |-> NotCallable(EmptySource)]

NoEntry ==
    [present |-> FALSE, name |-> <<>>, properties |-> <<>>, required |-> <<>>,
     implementation |-> NotCallable(EmptySource)]

Procs == 1..NumHandlers

Idle ==
    [pc |-> "idle", handler |-> "none", key |-> <<>>, data |-> Absent, call |-> NoCall,
     names |-> <<>>, at |-> 0, outcome |-> <<>>, lines |-> <<>>, alone |-> TRUE,
     writes |-> 0, catalog |-> [t \in AllNames |-> NoEntry],
     seen |-> [k \in Keys |-> Absent]]

RedactIdle ==
    /\ redactIn = NoValue
    /\ redactOut = [by |-> "none", value |-> NoValue]

CodecIdle ==
    /\ codecIn = NoValidator
    /\ codecWire = NoSchemaInfo
    /\ codecOut = NoValidator

ApiIdle ==
    /\ objects = [k \in Keys |-> Absent]
    /\ result = NoResult
    /\ stored = [t \in ToolNames |-> NoCall]

ServerIdle ==
    /\ toolManager = FALSE
    /\ phase = "boot"
    /\ dynamicTools = [t \in AllNames |-> NoEntry]
    /\ proc = [p \in Procs |-> Idle]
    /\ calls = 0

Init ==
    /\ InitSecrets
    /\ CodecIdle
    /\ RedactIdle
    /\ ApiIdle
    /\ ServerIdle

Next ==
    \/ LoadSecrets
    \/ GetPrivateKey
    \/ GetInstance
    \/ ManagerGetPrivateKey
    \/ ManagerGetEnvironmentVariables

Spec == Init /\ [][Next]_vars

\* the runs in which code that holds the credential calls the logger
InitLog ==
    /\ Init
    /\ envSlot \in {KeyA, OxKeyA}
    /\ envFile \in {NoFile, FileWithKey}
    /\ expectedHash = Undefined

NextLog ==
    \/ LoadSecrets
    \/ GetPrivateKey
    \/ LoggerCall

SpecLog == InitLog /\ [][NextLog]_vars

(***************************************************************************)
(* The schema codec applied to one validator: encode, then decode.         *)
(***************************************************************************)
InitCodec ==
    /\ SecretsStarted
    /\ RedactIdle
    /\ ApiIdle
    /\ ServerIdle
    /\ codecIn \in Validators
    /\ codecWire = NoSchemaInfo
    /\ codecOut = NoValidator

\* extractZodSchemaInfo(codecIn)
Encode ==
    /\ codecWire = NoSchemaInfo
    /\ codecWire' = extractZodSchemaInfo(codecIn)
    /\ UNCHANGED <<codecIn, codecOut>>
    /\ UNCHANGED <<secretVars, logVars, redactVars, apiVars, serverVars>>

\* createZodValidatorFromSchema(codecWire)
Decode ==
    /\ codecWire # NoSchemaInfo
    /\ codecOut = NoValidator
    /\ codecOut' = createZodValidatorFromSchema(codecWire)
    /\ UNCHANGED <<codecIn, codecWire>>
    /\ UNCHANGED <<secretVars, logVars, redactVars, apiVars, serverVars>>

NextCodec == Encode \/ Decode

SpecCodec == InitCodec /\ [][NextCodec]_vars

(***************************************************************************)
(* The two redactors applied to one value on their own: redactSensitive,   *)
(* which the logger maps over its arguments, and sanitizeSecrets, which    *)
(* the console wrappers apply to the mappings they are handed.             *)
(***************************************************************************)
\* the values handed to a redactor: texts in which a run of hexadecimal digits of
\* 63 to 128 digits stands alone or between other text, and mappings of one entry,
\* whose value is a text or a mapping of one entry
RedactInputs ==
    LET before == {<<>>, HexPrefix, CallerText.hexBlob, <<"k", "e", "y", "=">>,
                   <<"i", "d", ":", " ">>}
        runs == {KeyA, SubSeq(KeyA, 1, HexKeyLen - 1), KeyA \o <<"b", "2">>, KeyA \o KeyB,
                 [i \in 1..HexKeyLen |-> IF i % 2 = 0 THEN "F" ELSE "0"]}
        after == {<<>>, <<" ", "o", "k">>, <<"&", "x", "=", "1">>, <<"z", "z">>}
        keys == {<<"s", "e", "c", "r", "e", "t">>,
                 <<"c", "l", "i", "e", "n", "t", "S", "e", "c", "r", "e", "t">>,
                 <<"S", "E", "C", "R", "E", "T", "_", "T", "O", "K", "E", "N">>,
                 <<"a", "p", "i", "K", "e", "y">>,
                 <<"p", "a", "s", "s", "w", "o", "r", "d">>,
                 <<"n", "a", "m", "e">>}
        values == {Str(ShortKey), Str(ShortKey \o <<"2">>), Str(ShortKey \o <<"2", "3">>),
                   Str(KeyA), Obj(<<Entry(<<"n", "a", "m", "e">>, Str(ShortKey))>>),
                   Obj(<<Entry(<<"a", "u", "t", "h", "T", "o", "k", "e", "n">>,
                               Str(ShortKey \o <<"2", "3">>))>>)}
    IN  {Str(b \o r \o a) : b \in before, r \in runs, a \in after}
        \cup {Obj(<<Entry(k, v)>>) : k \in keys, v \in values}

InitRedact ==
    /\ SecretsStarted
    /\ CodecIdle
    /\ ApiIdle
    /\ ServerIdle
    /\ redactIn \in RedactInputs
    /\ redactOut = [by |-> "none", value |-> NoValue]

\* redactSensitive(redactIn), as logger.error, logger.warn and logger.info call it
RedactSensitive ==
    /\ redactOut.by = "none"
    /\ redactOut' = [by |-> "redactSensitive", value |-> redactSensitive(redactIn)]
    /\ UNCHANGED redactIn
    /\ UNCHANGED <<secretVars, logVars, codecVars, apiVars, serverVars>>

\* sanitizeSecrets(redactIn), as redactPrivateKeys calls it for an object
SanitizeSecrets ==
    /\ redactOut.by = "none"
    /\ redactIn.t = "object"
    /\ redactOut' = [by |-> "sanitizeSecrets", value |-> sanitizeSecrets(redactIn)]
    /\ UNCHANGED redactIn
    /\ UNCHANGED <<secretVars, logVars, codecVars, apiVars, serverVars>>

NextRedact == RedactSensitive \/ SanitizeSecrets

SpecRedact == InitRedact /\ [][NextRedact]_vars

(***************************************************************************)
(* Calls of the ToolManager: each call reaches the object store once, so   *)
(* each is one step.                                                       *)
(***************************************************************************)
Outcome(op, arg, loaded) ==
    [op |-> op, arg |-> arg, ok |-> loaded.ok, kind |-> loaded.kind,
     message |-> loaded.message, tool |-> loaded.tool, names |-> <<>>]

Done(op, arg, message) ==
    [op |-> op, arg |-> arg, ok |-> TRUE, kind |-> "none", message |-> message,
     tool |-> NoTool, names |-> <<>>]

Call(paramSchema, functionImplementation) ==
    [made |-> TRUE, paramSchema |-> paramSchema,
     functionImplementation |-> functionImplementation]

\* what a write to a key does to the history of storeTool calls
StoredAfter(key, call) ==
    [t \in ToolNames |-> IF KeyOf(t) = key THEN call ELSE stored[t]]

\* storeTool(toolName, paramSchema, functionImplementation)
StoreTool(toolName, paramSchema, functionImplementation) ==
    /\ objects' = PutObject(objects, KeyOf(toolName),
                            SerializedTool(toolName, paramSchema, functionImplementation))
    /\ stored' = StoredAfter(KeyOf(toolName), Call(paramSchema, functionImplementation))
    /\ result' = Done("storeTool", toolName, ManagerText.tool \o toolName \o ManagerText.stored)
    /\ UNCHANGED <<secretVars, logVars, codecVars, redactVars, serverVars>>

\* storeTemplatedTool(toolName, paramSchema, templateType, config)
StoreTemplatedTool(toolName, paramSchema, templateType, config) ==
    /\ objects' = PutObject(objects, KeyOf(toolName),
                            SerializedTemplatedTool(toolName, paramSchema, templateType,
                                                    config))
    /\ stored' = StoredAfter(KeyOf(toolName), NoCall)
    /\ result' = Done("storeTemplatedTool", toolName,
                      ManagerText.templated \o toolName \o ManagerText.stored)
    /\ UNCHANGED <<secretVars, logVars, codecVars, redactVars, serverVars>>

\* loadTool(toolName)
LoadTool(toolName) ==
    /\ result' = Outcome("loadTool", toolName, loadTool(objects, toolName))
    /\ UNCHANGED <<objects, stored>>
    /\ UNCHANGED <<secretVars, logVars, codecVars, redactVars, serverVars>>

\* listTools()
ListTools ==
    /\ result' = [Done("listTools", <<>>, <<>>) EXCEPT !.names = listTools(objects)]
    /\ UNCHANGED <<objects, stored>>
    /\ UNCHANGED <<secretVars, logVars, codecVars, redactVars, serverVars>>

\* the configs a caller stores: one for each operation and one that names none,
\* with and without an inputField
Configs ==
    {Config("uppercase", <<>>),
     Config("lowercase", <<"m", "o", "d", "e">>),
     Config("trim", <<"t", "e", "x", "t">>),
     Config("parse_json", <<"m", "o", "d", "e">>),
     Config("parse_json", <<"t", "e", "x", "t">>),
     Config("reverse", <<>>),
     Config("", <<"x">>)}

\* http://h/{x}
Endpoint == <<"h", "t", "t", "p", ":", "/", "/", "h", "/", "{", "x", "}">>

\* the configs of the api_call tools a caller stores: without a method, with GET and
\* with POST
ApiConfigs == {ApiConfig(Endpoint, method) : method \in {<<>>, MethodGet, MethodPost}}

\* the args an api_call tool is called with: without a body, with a body that is an
\* object or a text, and with a body that is zero
ApiArgs ==
    {<<Entry(<<"x">>, Num(7))>>,
     <<Entry(<<"x">>, Num(7)), Entry(<<"b", "o", "d", "y">>, Obj(<<Entry(<<"x">>, Num(42))>>))>>,
     <<Entry(<<"b", "o", "d", "y">>, Str(<<"a", "b">>))>>,
     <<Entry(<<"x">>, Str(<<"a">>)), Entry(<<"b", "o", "d", "y">>, Num(0))>>}

\* the calls of storeTemplatedTool: each config for a transformation, and one call
\* for each other template type, among them the empty text
TemplateCalls ==
    LET schema == CHOOSE s \in ParamSchemas : s # SchemaX
    IN  {[paramSchema |-> schema, templateType |-> TplTransformation, config |-> c] :
            c \in Configs}
        \cup {[paramSchema |-> SchemaX, templateType |-> tt, config |-> Config("", <<>>)] :
                 tt \in {TplApiCall, TplUnknown, <<>>}}
        \cup {[paramSchema |-> SchemaX, templateType |-> TplApiCall, config |-> c] :
                 c \in ApiConfigs}

\* what another client of the bucket may put under a key: text that is no JSON, or
\* a descriptor whose function body does not compile, is empty or is an expression
\* that is no function, or a descriptor without a schema
ForeignData ==
    {NotJson,
     Descriptor(NameEcho, Src.garbage, <<>>, <<>>, NoConfig),
     Descriptor(NameEcho, EmptySource, <<>>, <<>>, NoConfig),
     Descriptor(NameEcho, Src.number, <<>>, <<>>, NoConfig),
     [Descriptor(NameEcho, Src.echo, <<>>, <<>>, NoConfig) EXCEPT !.hasSchema = FALSE]}

\* RecallClientManager.addObject(bucket, key, data, { overwrite: true }) by a client
\* other than the ToolManager
AddObject(key, data) ==
    /\ objects[key] # data
    /\ objects' = PutObject(objects, key, data)
    /\ stored' = StoredAfter(key, NoCall)
    /\ result' = Done("addObject", key, <<>>)
    /\ UNCHANGED <<secretVars, logVars, codecVars, redactVars, serverVars>>

InitApi ==
    /\ SecretsStarted
    /\ CodecIdle
    /\ RedactIdle
    /\ ApiIdle
    /\ ServerIdle

NextApi ==
    \/ \E t \in ToolNames, s \in ParamSchemas, f \in Functions : StoreTool(t, s, f)
    \/ \E t \in ToolNames, call \in TemplateCalls :
          StoreTemplatedTool(t, call.paramSchema, call.templateType, call.config)
    \/ \E t \in ToolNames : LoadTool(t)
    \/ ListTools
    \/ \E t \in ToolNames, d \in ForeignData : AddObject(KeyOf(t), d)
    \/ AddObject(OtherKey, NotJson)

SpecApi == InitApi /\ [][NextApi]_vars

(***************************************************************************)
(* The server of src/index.ts: its start, the handlers that store a tool   *)
(* and the catalog refresh they run.  A handler is suspended while it      *)
(* awaits the object store; each step below runs from one resumption to    *)
(* the next suspension.                                                    *)
(***************************************************************************)
TOOLS_BUCKET_ALIAS ==
    <<"m", "c", "p", "-", "d", "y", "n", "a", "m", "i", "c", "-", "t", "o", "o", "l", "s">>

\* the address getOrCreateBucket returns: 0x and 40 hexadecimal digits
BucketAddress == HexPrefix \o [i \in 1..40 |-> IF i % 2 = 1 THEN "f" ELSE "0"]

\* the texts index.ts logs and throws
ServerText ==
    [
     found |-> <<"F", "o", "u", "n", "d", " " >>,
     dynamicTools |-> <<" ", "d", "y", "n", "a", "m", "i", "c", " ", "t", "o", "o", "l",
        "s" >>,
     loadedTool |-> <<"L", "o", "a", "d", "e", "d", " ", "d", "y", "n", "a", "m", "i", "c",
        " ", "t", "o", "o", "l", ":", " " >>,
     errorLoading |-> <<"E", "r", "r", "o", "r", " ", "l", "o", "a", "d", "i", "n", "g",
        " ", "t", "o", "o", "l", " " >>,
     initialized |-> <<"T", "o", "o", "l", " ", "m", "a", "n", "a", "g", "e", "r", " ",
        "i", "n", "i", "t", "i", "a", "l", "i", "z", "e", "d", " ", "w", "i", "t", "h",
        " ", "b", "u", "c", "k", "e", "t", ":", " " >>,
     errorInitializing |-> <<"E", "r", "r", "o", "r", " ", "i", "n", "i", "t", "i", "a",
        "l", "i", "z", "i", "n", "g", " ", "t", "o", "o", "l", " ", "m", "a", "n", "a",
        "g", "e", "r", ":", " " >>,
     createFailed |-> <<"F", "a", "i", "l", "e", "d", " ", "t", "o", " ", "c", "r", "e",
        "a", "t", "e", " ", "b", "u", "c", "k", "e", "t", ":", " " >>,
     notInitialized |-> <<"T", "o", "o", "l", " ", "m", "a", "n", "a", "g", "e", "r", " ",
        "n", "o", "t", " ", "i", "n", "i", "t", "i", "a", "l", "i", "z", "e", "d" >>,
     invalidBody |-> <<"I", "n", "v", "a", "l", "i", "d", " ", "f", "u", "n", "c", "t",
        "i", "o", "n", " ", "b", "o", "d", "y", ":", " " >>,
     errorInStoreFunction |-> <<"E", "r", "r", "o", "r", " ", "i", "n", " ", "s", "t", "o",
        "r", "e", "_", "t", "o", "o", "l", "_", "f", "u", "n", "c", "t", "i", "o", "n", ":"
        >>,
     errorExecuting |-> <<"E", "r", "r", "o", "r", " ", "e", "x", "e", "c", "u", "t", "i", "n", "g", " ",
          "d", "y", "n", "a", "m", "i", "c", " ", "t", "o", "o", "l", " ">>,
     unknownTool |-> <<"U", "n", "k", "n", "o", "w", "n", " ", "t", "o", "o", "l", ":", " ">>,
     error |-> <<"E", "r", "r", "o", "r", ":", " ">>,
     notAFunction |-> <<"d", "y", "n", "a", "m", "i", "c", "T", "o", "o", "l", ".", "i", "m", "p", "l",
          "e", "m", "e", "n", "t", "a", "t", "i", "o", "n", " ", "i", "s", " ", "n", "o",
          "t", " ", "a", " ", "f", "u", "n", "c", "t", "i", "o", "n">>,
     notDefined |-> <<"b", "a", "s", "e", " ", "i", "s", " ", "n", "o", "t", " ", "d", "e", "f", "i",
          "n", "e", "d">>
    ]

ParameterSets ==
    {<<[name |-> "x",
        info |-> [type |-> "number", description |-> "", required |-> "undefined"]]>>,
    <<[name |-> "text", info |-> [type |-> "string", description |-> "the value",
                                  required |-> "true"]],
      [name |-> "mode", info |-> [type |-> "string", description |-> "",
                                  required |-> "false"]]>>}

\* the loop that converts parameters to a Zod schema
SchemaFromParameters(parametersObj) ==
    [i \in 1..Len(parametersObj) |->
        LET info == parametersObj[i].info
            validator == Validator(ClassOfTag(info.type), info.description)
        IN  Param(parametersObj[i].name,
                  IF info.required = "false" THEN Optional(validator) ELSE validator)]

\* the function bodies a request may carry
FunctionBodies == {Src.echo, Src.identity, Src.mathMax, Src.garbage, Src.number}

\* the type of a property of the input schema: the instanceof chain, "string" by default
JsonTypeOf(validator) ==
    IF validator.cls \in RecognisedClasses THEN TypeTagOf(validator.cls) ELSE "string"

\* the entry loadDynamicTools puts in the map for a loaded tool
CatalogEntry(loadedTool) ==
    LET schema == loadedTool.schema
        properties == [i \in 1..Len(schema) |->
                          [name |-> schema[i].name, type |-> JsonTypeOf(schema[i].validator),
                           description |-> schema[i].validator.description]]
        requiredParams == SelectSeq(schema, LAMBDA e : ~isOptional(e.validator))
    IN  [present |-> TRUE, name |-> loadedTool.name, properties |-> properties,
         required |-> ParamNames(requiredParams),
         implementation |-> loadedTool.implementation]

Failure(op, arg, kind, message) ==
    [op |-> op, arg |-> arg, ok |-> FALSE, kind |-> kind, message |-> message,
     tool |-> NoTool, names |-> <<>>]

\* whether some handler other than p is inside loadDynamicTools
OtherRefreshing(p) == \E q \in Procs \ {p} : proc[q].pc \in {"list", "load"}

\* handler p calls loadDynamicTools(): with a tool manager it calls listTools() and
\* is suspended.  alone records that no other refresh ran while this one did,
\* catalog what the map held when this one began, seen what the bucket held when
\* the pending request to the object store was issued.
BeginRefresh(p, handler) ==
    [q \in Procs |->
        IF q = p
        THEN [Idle EXCEPT !.pc = "list", !.handler = handler, !.alone = ~OtherRefreshing(p),
                          !.catalog = dynamicTools, !.seen = objects]
        ELSE IF proc[q].pc \in {"list", "load"} THEN [proc[q] EXCEPT !.alone = FALSE]
        ELSE proc[q]]

\* the last line written when loadDynamicTools returns to handler p, the handler's
\* result, and the phase the server is in afterwards
Complete(p, line, record) ==
    /\ proc' = [proc EXCEPT ![p] = [record EXCEPT !.pc = "idle", !.catalog = Idle.catalog,
                                                   !.seen = Idle.seen]]
    /\ IF record.handler = "initialize"
       THEN /\ sink' = LogLine(Tag.info, <<Str(ServerText.initialized \o BucketAddress)>>)
            /\ phase' = "serving"
            /\ result' = Done("initializeToolManager", <<>>, <<>>)
       ELSE /\ sink' = line
            /\ phase' = phase
            /\ result' = Done(record.handler, record.key, <<>>)
    /\ sinkTwin' = sink'

\* initializeToolManager(), called by main() before the server is connected
InitializeToolManager ==
    /\ phase = "boot"
    /\ \E created \in BOOLEAN :
          IF created
          THEN /\ toolManager' = TRUE
               /\ phase' = "init"
               /\ proc' = BeginRefresh(1, "initialize")
               /\ UNCHANGED <<sink, sinkTwin, result>>
          ELSE /\ sink' = LogLine(Tag.error, <<Str(ServerText.errorInitializing
                                                   \o ServerText.createFailed
                                                   \o TOOLS_BUCKET_ALIAS)>>)
               /\ sinkTwin' = sink'
               /\ phase' = "serving"
               /\ result' = Failure("initializeToolManager", <<>>, "Error",
                                    ServerText.createFailed \o TOOLS_BUCKET_ALIAS)
               /\ UNCHANGED <<toolManager, proc>>
    /\ UNCHANGED <<objects, stored, dynamicTools, calls>>
    /\ UNCHANGED <<secretVars, codecVars, redactVars>>

\* a handler that got as far as its call of storeTool or storeTemplatedTool
Storing(p, handler, toolName, data, call) ==
    [proc EXCEPT ![p] = [Idle EXCEPT !.pc = "store", !.handler = handler,
                                     !.key = toolName, !.data = data, !.call = call]]

\* the store_tool_function case of the CallTool handler, up to its call of storeTool
StoreToolFunction(p, name, functionBodyStr, parametersObj) ==
    /\ phase = "serving"
    /\ proc[p].pc = "idle"
    /\ calls < MaxCalls
    /\ calls' = calls + 1
    /\ LET built == Evaluate(functionBodyStr)
           zodSchema == SchemaFromParameters(parametersObj)
       IN  IF ~toolManager
           THEN /\ result' = Failure("store_tool_function", name, "Error",
                                     ServerText.notInitialized)
                /\ UNCHANGED <<proc, sink, sinkTwin>>
           ELSE IF built.threw
           THEN /\ result' = Failure("store_tool_function", name, "Error",
                                     ServerText.invalidBody \o ManagerText.syntaxError)
                /\ sink' = LogLine(Tag.error, <<Str(ServerText.errorInStoreFunction), Obj(<<>>)>>)
                /\ sinkTwin' = sink'
                /\ UNCHANGED proc
           ELSE /\ proc' = Storing(p, "store_tool_function", name,
                                   SerializedTool(name, zodSchema, built.value),
                                   Call(zodSchema, built.value))
                /\ UNCHANGED <<result, sink, sinkTwin>>
    /\ UNCHANGED <<objects, stored, toolManager, phase, dynamicTools>>
    /\ UNCHANGED <<secretVars, codecVars, redactVars>>

\* typeof result === 'object' ? JSON.stringify(result, null, 2) : String(result)
ResultText(value) ==
    CASE value.t = "object" -> JsonStringify(value)
      [] value.t = "string" -> value.s
      [] value.t = "undefined" -> Undefined
      [] value.t = "number" -> IF value = NaN THEN <<"N", "a", "N">> ELSE DecimalText(value.n)

\* the outcome of a call of a tool: what the handler returns for name and args, and
\* the branch of the handler that made it
Reply(name, args, by, ok, kind, message) ==
    [op |-> "call_tool", arg |-> name, ok |-> ok, kind |-> kind, message |-> message,
     tool |-> NoTool, names |-> <<>>, args |-> args, by |-> by]

\* the account recallClient.getAccountInfo() reports, as the get_account case prints it
AccountInfo ==
    Obj(<<Entry(<<"a", "d", "d", "r", "e", "s", "s">>, Str(BucketAddress)),
          Entry(<<"b", "a", "l", "a", "n", "c", "e">>, Str(<<"0">>)),
          Entry(<<"n", "o", "n", "c", "e">>, Num(0))>>)

\* the args objects of the calls of dynamic tools
CallArgs == {<<Entry(<<"x">>, Num(42))>>, <<Entry(<<"t", "e", "x", "t">>, Str(<<"a", "b">>))>>}

\* the CallTool handler: the dynamic dispatch for a name the map holds, else the
\* case of a built-in name (get_account of them), else the default case; and the
\* outer catch
CallTool(name, args) ==
    /\ phase = "serving"
    /\ calls < MaxCalls
    /\ calls' = calls + 1
    /\ LET dynamicTool == dynamicTools[name]
           out == Invoke(dynamicTool.implementation, args)
           thrown == CASE out.threw = "TypeError" -> ServerText.notAFunction
                       [] out.threw = "ReferenceError" -> ServerText.notDefined
                       [] OTHER -> ManagerText.jsonError
       IN  IF ~dynamicTool.present
           THEN /\ result' = IF name = RECALL_TOOLS[1]
                              THEN Reply(name, args, "builtin", TRUE, "none",
                                         JsonStringify(AccountInfo))
                              ELSE Reply(name, args, "default", FALSE, "UnknownTool",
                                         ServerText.unknownTool \o name)
                /\ UNCHANGED <<sink, sinkTwin>>
           ELSE IF out.threw # "none"
           THEN /\ result' = Reply(name, args, "dynamic", FALSE, out.threw,
                                   ServerText.error \o thrown)
                /\ sink' = LogLine(Tag.error,
                                   <<Str(ServerText.errorExecuting \o name \o <<":">>),
                                     Obj(<<>>)>>)
                /\ sinkTwin' = sink'
           ELSE /\ result' = Reply(name, args, "dynamic", TRUE, "none", ResultText(out.value))
                /\ UNCHANGED <<sink, sinkTwin>>
    /\ UNCHANGED <<objects, stored, toolManager, phase, dynamicTools, proc>>
    /\ UNCHANGED <<secretVars, codecVars, redactVars>>

\* the names ListTools advertises: those of RECALL_TOOLS, then tool.name of each
\* entry of the map
Advertised(map) ==
    LET listed == [i \in 1..Len(KeyOrder) |-> StripPrefix(KeyOrder[i])]
        held == SelectSeq(listed, LAMBDA t : t \in DOMAIN map /\ map[t].present)
    IN  RECALL_TOOLS \o [i \in 1..Len(held) |-> map[held[i]].name]

\* the ListTools handler
ListToolsRequest ==
    /\ phase = "serving"
    /\ calls < MaxCalls
    /\ calls' = calls + 1
    /\ result' = [Done("list_tools", <<>>, <<>>) EXCEPT !.names = Advertised(dynamicTools)]
    /\ UNCHANGED <<objects, stored, toolManager, phase, dynamicTools, proc, sink, sinkTwin>>
    /\ UNCHANGED <<secretVars, codecVars, redactVars>>

\* the store_tool_template case, up to its call of storeTemplatedTool
StoreToolTemplate(p, name, templateType, config, parametersObj) ==
    /\ phase = "serving"
    /\ proc[p].pc = "idle"
    /\ calls < MaxCalls
    /\ calls' = calls + 1
    /\ IF ~toolManager
       THEN /\ result' = Failure("store_tool_template", name, "Error", ServerText.notInitialized)
            /\ UNCHANGED proc
       ELSE /\ proc' = Storing(p, "store_tool_template", name,
                               SerializedTemplatedTool(name,
                                   SchemaFromParameters(parametersObj), templateType, config),
                               NoCall)
            /\ UNCHANGED result
    /\ UNCHANGED <<objects, stored, toolManager, phase, dynamicTools, sink, sinkTwin>>
    /\ UNCHANGED <<secretVars, codecVars, redactVars>>

\* the write of handler p lands, storeTool returns, and the handler calls
\* loadDynamicTools()
StoreDone(p) ==
    /\ proc[p].pc = "store"
    /\ objects' = PutObject(objects, KeyOf(proc[p].key), proc[p].data)
    /\ stored' = StoredAfter(KeyOf(proc[p].key), proc[p].call)
    /\ proc' = [BeginRefresh(p, proc[p].handler) EXCEPT ![p].key = proc[p].key,
                                                        ![p].writes = proc[p].writes + 1,
                                                        ![p].seen = objects']
    /\ UNCHANGED <<result, toolManager, phase, dynamicTools, calls, sink, sinkTwin>>
    /\ UNCHANGED <<secretVars, codecVars, redactVars>>

\* a faulty variant, which C23 must tell apart: the entries of the map are kept
Merged(map) == map

\* dynamicTools.clear()
Cleared(map) == [t \in DOMAIN map |-> NoEntry]

\* what a request to the object store that handler p awaits may have read: the
\* store served it at some time between its issue and the resumption of p
Served(p) == {proc[p].seen, objects}

\* listTools() returns to loadDynamicTools: the map is cleared and the first load begins
ListDone(p) ==
    /\ proc[p].pc = "list"
    /\ \E store \in Served(p) :
          LET toolNames == listTools(store)
              line == LogLine(Tag.info, <<Str(ServerText.found \o CountText(Len(toolNames))
                                             \o ServerText.dynamicTools)>>)
              record == [proc[p] EXCEPT !.names = toolNames, !.at = 1, !.seen = objects]
          IN  /\ dynamicTools' = Cleared(dynamicTools)
              /\ IF toolNames = <<>>
                 THEN Complete(p, line, record)
                 ELSE /\ proc' = [proc EXCEPT ![p] = [record EXCEPT !.pc = "load"]]
                      /\ sink' = line
                      /\ sinkTwin' = line
                      /\ UNCHANGED <<result, phase>>
    /\ UNCHANGED <<objects, stored, toolManager, calls>>
    /\ UNCHANGED <<secretVars, codecVars, redactVars>>

\* the line the catch around one load writes
ErrorLoadingLine(toolName, message) ==
    LogLine(Tag.error, <<Str(ServerText.errorLoading \o toolName \o <<":", " ">> \o message)>>)

\* loadTool(toolName) returns to the loop of loadDynamicTools, or throws into its catch
LoadDone(p) ==
    /\ proc[p].pc = "load"
    /\ \E store \in Served(p) :
          LET toolName == proc[p].names[proc[p].at]
              loadedTool == loadTool(store, toolName)
              line == IF loadedTool.ok
                      THEN LogLine(Tag.info, <<Str(ServerText.loadedTool \o toolName)>>)
                      ELSE ErrorLoadingLine(toolName, loadedTool.message)
              record == [proc[p] EXCEPT !.at = @ + 1,
                                        !.outcome = Append(@, loadedTool.ok),
                                        !.lines = Append(@, line),
                                        !.seen = objects]
          IN  /\ dynamicTools' = IF loadedTool.ok
                                 THEN [dynamicTools EXCEPT
                                         ![toolName] = CatalogEntry(loadedTool.tool)]
                                 ELSE dynamicTools
              /\ IF proc[p].at = Len(proc[p].names)
                 THEN Complete(p, line, record)
                 ELSE /\ proc' = [proc EXCEPT ![p] = record]
                      /\ sink' = line
                      /\ sinkTwin' = line
                      /\ UNCHANGED <<result, phase>>
    /\ UNCHANGED <<objects, stored, toolManager, calls>>
    /\ UNCHANGED <<secretVars, codecVars, redactVars>>

\* another client of the bucket overwrites a key while the server runs
ForeignWrite(key, data) ==
    /\ calls < MaxCalls
    /\ calls' = calls + 1
    /\ objects[key] # data
    /\ objects' = PutObject(objects, key, data)
    /\ stored' = StoredAfter(key, NoCall)
    /\ UNCHANGED <<result, toolManager, phase, dynamicTools, proc, sink, sinkTwin>>
    /\ UNCHANGED <<secretVars, codecVars, redactVars>>

\* loadDynamicTools() called on its own by handler p: without a tool manager it
\* writes a line and returns
LoadDynamicTools(p) ==
    /\ phase = "serving"
    /\ proc[p].pc = "idle"
    /\ calls < MaxCalls
    /\ calls' = calls + 1
    /\ IF ~toolManager
       THEN /\ sink' = LogLine(Tag.error, <<Str(ServerText.notInitialized)>>)
            /\ sinkTwin' = sink'
            /\ result' = Done("loadDynamicTools", <<>>, <<>>)
            /\ UNCHANGED proc
       ELSE /\ proc' = BeginRefresh(p, "loadDynamicTools")
            /\ UNCHANGED <<result, sink, sinkTwin>>
    /\ UNCHANGED <<objects, stored, toolManager, phase, dynamicTools>>
    /\ UNCHANGED <<secretVars, codecVars, redactVars>>

\* what the bucket may hold when the server starts: nothing, or what earlier runs and
\* other clients left in it
BucketWithBroken ==
    [k \in Keys |->
        IF k = KeyOf(NameEcho) THEN SerializedTool(NameEcho, SchemaX, Fn(Src.echo, "closure"))
        ELSE IF k = KeyOf(NameLong) THEN NotJson
        ELSE Absent]

InitTools ==
    /\ SecretsStarted
    /\ CodecIdle
    /\ RedactIdle
    /\ ServerIdle
    /\ objects \in {[k \in Keys |-> Absent], BucketWithBroken}
    /\ result = NoResult
    /\ stored = [t \in ToolNames |-> NoCall]

NextTools ==
    \/ InitializeToolManager
    \/ \E p \in Procs, name \in ToolNames, body \in FunctionBodies,
          parameters \in ParameterSets : StoreToolFunction(p, name, body, parameters)
    \/ \E p \in Procs, name \in ToolNames, tt \in {TplTransformation, TplUnknown},
          parameters \in ParameterSets :
          StoreToolTemplate(p, name, tt, Config("uppercase", <<>>), parameters)
    \/ \E name \in ToolNames, args \in CallArgs : CallTool(name, args)
    \/ ListToolsRequest
    \/ \E p \in Procs : StoreDone(p)
    \/ \E p \in Procs : ListDone(p)
    \/ \E p \in Procs : LoadDone(p)
    \/ \E k \in {KeyOf(t) : t \in ToolNames}, d \in ForeignData : ForeignWrite(k, d)

SpecTools == InitTools /\ [][NextTools]_vars

\* the runs in which callers store tools of their own under the name of a built-in
\* tool, and call and list the tools
NextShadow ==
    \/ InitializeToolManager
    \/ \E p \in Procs, body \in {Src.identity, Src.garbage}, parameters \in ParameterSets :
          StoreToolFunction(p, NameBuiltin, body, parameters)
    \/ \E p \in Procs, parameters \in ParameterSets :
          StoreToolTemplate(p, NameBuiltin, TplTransformation, Config("uppercase", <<>>),
                            parameters)
    \/ \E name \in {NameBuiltin, NameEcho}, args \in CallArgs : CallTool(name, args)
    \/ ListToolsRequest
    \/ \E p \in Procs : StoreDone(p)
    \/ \E p \in Procs : ListDone(p)
    \/ \E p \in Procs : LoadDone(p)

SpecShadow == InitTools /\ [][NextShadow]_vars

\* the runs in which loadDynamicTools() is called on its own, whatever became of the
\* tool manager at the start
NextRefresh ==
    \/ InitializeToolManager
    \/ \E p \in Procs : LoadDynamicTools(p)
    \/ \E name \in ToolNames, args \in CallArgs : CallTool(name, args)
    \/ ListToolsRequest
    \/ \E p \in Procs : ListDone(p)
    \/ \E p \in Procs : LoadDone(p)
    \/ \E k \in {KeyOf(t) : t \in ToolNames}, d \in ForeignData : ForeignWrite(k, d)

SpecRefresh == InitTools /\ [][NextRefresh]_vars

(***************************************************************************)
(* Claims about the secret store.                                          *)
(***************************************************************************)

\* C1: the key is handed out at most once per load that buffered one: of two
\* getPrivateKey() calls with no such load between them the first returns a value
\* and the second throws "not available"; no order of callers (a direct call, the
\* client's constructor) lets two of them obtain it.
C1_ConsumedAtMostOnce ==
    /\ [](grants <= 1)
    /\ [][GetPrivateKey =>
            /\ (everLoaded /\ grants = 0) =>
                  ret'.err = NoError /\ ret'.value = secretBuffer /\ ret'.value # Null
            /\ grants >= 1 => ret'.err = Err.notAvailable /\ ret'.value = Undefined]_vars

C1_Witness ==
    /\ ret.op = "getPrivateKey"
    /\ ret.err = Err.notAvailable
    /\ everLoaded
    /\ grants = 1

\* C2: once a load has buffered a key, from either source,
\* process.env.RECALL_PRIVATE_KEY holds the placeholder and not the credential,
\* also after the key was consumed.
C2_SlotRedacted ==
    everLoaded => envSlot = REDACTED /\ envSlot # credential

C2_Witness ==
    /\ loadedFrom = ".env"
    /\ grants = 1
    /\ ret.op = "getPrivateKey"
    /\ envSlot = REDACTED
    /\ credential = ShortKey

\* C3: getPrivateKey() called before any load buffered a key, or after the key was
\* consumed, throws "not available", returns nothing and leaves buffer, flag and
\* slot as they were.
C3_ConsumeUnavailable ==
    [][(GetPrivateKey /\ (~everLoaded \/ grants >= 1)) =>
            /\ ret'.err = Err.notAvailable
            /\ ret'.value = Undefined
            /\ UNCHANGED <<secretBuffer, secretLoaded, envSlot>>]_vars

C3_Witness ==
    /\ ret.op = "getPrivateKey"
    /\ ret.err = Err.notAvailable
    /\ ~everLoaded
    /\ envSlot = KeyA

\* C4: the guarded accessors of RecallClientManager throw a security violation in
\* every state, return nothing and change neither the store nor the client.
C4_GuardedAccessorsThrow ==
    [][(ManagerGetPrivateKey \/ ManagerGetEnvironmentVariables) =>
            /\ ret'.err = Err.securityViolation
            /\ ret'.value = Undefined
            /\ UNCHANGED <<envSlot, secretBuffer, secretLoaded, instance>>]_vars

C4_Witness ==
    /\ ret.op = "RecallClientManager.getPrivateKey"
    /\ ret.err = Err.securityViolation
    /\ instance = OxKeyA

\* C5: no line the logger writes contains the credential, whatever the arguments,
\* and the twin run, which differs only in the credential, writes the same line.
C5_SinkHidesCredential ==
    credential # Null => ~Includes(sink, credential) /\ sink = sinkTwin

\* C6: a load takes the key from process.env whenever the slot holds a non-empty
\* value and reads the .env file only otherwise; when neither yields a non-empty
\* value it throws "cannot proceed" and the store stays without a key.
C6_LoadPriority ==
    [][(LoadSecrets /\ ~secretLoaded) =>
            /\ envSlot \notin {Undefined, <<>>} =>
                  /\ secretBuffer' = envSlot
                  /\ loadedFrom' = "external"
                  /\ ~ret'.readFile
            /\ envSlot \in {Undefined, <<>>} => ret'.readFile
            /\ (/\ envSlot \in {Undefined, <<>>}
                /\ \/ envFile = NoFile
                   \/ ParseEnvFile(envFile, RECALL_PRIVATE_KEY) \in {Undefined, <<>>}) =>
                  /\ ret'.err = Err.cannotProceed
                  /\ secretBuffer' = Null
                  /\ ~secretLoaded'
                  /\ UNCHANGED <<everLoaded, credential>>]_vars

C6_Witness ==
    /\ ret.op = "loadSecrets"
    /\ ret.err = Err.cannotProceed
    /\ envSlot = <<>>
    /\ envFile = FileWithBlankKey
    /\ ~everLoaded


\* C7: after storeTool(t, schema, f) and with no later write to key tools/t,
\* loadTool(t) succeeds and returns a tool named t with the parameter names of
\* schema whose implementation returns what f returns for the same arguments, and
\* listTools() includes t.
C7_StoreLoadRoundTrip ==
    /\ (result.op = "loadTool" /\ stored[result.arg].made) =>
          /\ result.ok
          /\ result.tool.name = result.arg
          /\ ParamNames(result.tool.schema) = ParamNames(stored[result.arg].paramSchema)
          /\ \A args \in ArgLists :
                Invoke(result.tool.implementation, args)
                    = Invoke(stored[result.arg].functionImplementation, args)
    /\ result.op = "listTools" =>
          \A t \in ToolNames :
              stored[t].made => \E i \in 1..Len(result.names) : result.names[i] = t

\* C8: loadTool(name) fails with ToolNotFound, and returns no tool, in every state
\* in which the bucket holds nothing under key tools/<name>.
C8_AbsentIsToolNotFound ==
    (result.op = "loadTool" /\ objects[KeyOf(result.arg)].kind = "absent") =>
        /\ ~result.ok
        /\ result.kind = "ToolNotFound"
        /\ result.message = ManagerText.tool \o result.arg \o ManagerText.notFound
        /\ result.tool = NoTool

C8_Witness ==
    /\ result.op = "loadTool"
    /\ result.arg = NameEcho
    /\ result.kind = "ToolNotFound"
    /\ objects[KeyOf(NameEcho)].kind = "absent"
    /\ objects[KeyOf(NameLong)].kind = "json"

\* C10: for every validator v, decode(encode(v)) is required exactly when v is, and
\* its coarse type tag is encode(v).type.
C10_RoundTrip ==
    codecOut # NoValidator =>
        /\ isOptional(codecOut) = isOptional(codecIn)
        /\ extractZodSchemaInfo(codecOut).type = codecWire.type

\* C9: when a catalog refresh completes it has raised no exception, and for each
\* name it listed: if loadTool failed for the name, a line naming the tool was
\* logged for the failure and the catalog does not hold the name; if loadTool
\* succeeded, the catalog holds the name.  Stated for a refresh no other refresh
\* overlapped.
C9_RefreshToleratesFailure ==
    [][\A p \in Procs :
          (proc[p].pc \in {"list", "load"} /\ proc'[p].pc = "idle" /\ proc'[p].alone) =>
              /\ result'.ok
              /\ \A i \in 1..Len(proc'[p].names) :
                    LET toolName == proc'[p].names[i]
                    IN  IF proc'[p].outcome[i]
                        THEN dynamicTools'[toolName].present
                        ELSE /\ ~dynamicTools'[toolName].present
                             /\ Includes(proc'[p].lines[i], toolName)]_vars

\* C11: for every string that contains a run of 64 hexadecimal digits, the string
\* redactSensitive returns contains none of the 64-digit hexadecimal substrings of
\* the input.
C11_HexRunsRedacted ==
    (redactOut.by = "redactSensitive" /\ redactIn.t = "string")
        => \A i \in 1..(Len(redactIn.s) - HexKeyLen + 1) :
              RunIn(redactIn.s, i, HexDigits) >= HexKeyLen
                 => ~Includes(redactOut.value.s, SubSeq(redactIn.s, i, i + HexKeyLen - 1))

\* a text whose run of hexadecimal digits is longer than a key has been redacted
C11_Witness ==
    /\ redactOut.by = "redactSensitive"
    /\ redactIn.t = "string"
    /\ RunIn(redactIn.s, 1, HexDigits) > HexKeyLen
    /\ Includes(redactOut.value.s, REDACTED_KEY)

\* C12: for every entry of a mapping whose key contains "secret" in any letter case
\* and whose value is a string, a redactor returns the fixed short mask when the
\* value has at most 8 characters, and otherwise the first 4 characters of the
\* value, an ellipsis and its last 4 characters.
C12_SecretEntriesMasked ==
    (redactOut.by # "none" /\ redactIn.t = "object")
        => \A i \in 1..Len(redactIn.e) :
              LET value == redactIn.e[i].v.s
              IN  (/\ Includes(ToLowerCase(redactIn.e[i].k), <<"s", "e", "c", "r", "e", "t">>)
                   /\ redactIn.e[i].v.t = "string")
                    => redactOut.value.e[i].v
                         = Str(IF Len(value) <= 8
                               THEN <<"*", "*", "*", "*", "*", "*", "*", "*">>
                               ELSE SubSeq(value, 1, 4) \o <<".", ".", ".">>
                                    \o SubSeq(value, Len(value) - 3, Len(value)))

\* C13: a tool stored with storeTemplatedTool(name, schema, "transformation",
\* config) and then loaded applies config.operation to the value of args at
\* config.inputField, or at the first key of args when config names no field:
\* uppercase, lowercase, trim and parse_json transform a string ({operation:
\* "uppercase"} called with {text: "ab"} returns "AB"), a value that is no string
\* is returned unchanged, and so is any value under an operation that is none of
\* the four.
C13_TransformationApplies ==
    (/\ result.op = "loadTool"
     /\ objects[KeyOf(result.arg)].kind = "json"
     /\ objects[KeyOf(result.arg)].templateType = TplTransformation)
        => /\ result.ok
           /\ \A args \in ArgLists :
                LET config == objects[KeyOf(result.arg)].config
                    field == IF config.inputField # <<>> THEN config.inputField
                             ELSE IF args = <<>> THEN Undefined ELSE args[1].k
                    given == {i \in 1..Len(args) : args[i].k = field}
                    input == IF given = {} THEN NoValue ELSE args[Least(given)].v
                    out == Invoke(result.tool.implementation, args)
                    operation == config.operation
                IN  /\ input.t # "string" => out = [threw |-> "none", value |-> input]
                    /\ operation \notin {"uppercase", "lowercase", "trim", "parse_json"}
                          => out = [threw |-> "none", value |-> input]
                    /\ (operation = "uppercase" /\ input = Str(<<"a", "b">>))
                          => out = [threw |-> "none", value |-> Str(<<"A", "B">>)]
                    /\ (operation = "uppercase" /\ input = Str(<<" ", "A", "b", " ">>))
                          => out = [threw |-> "none", value |-> Str(<<" ", "A", "B", " ">>)]
                    /\ (operation = "lowercase" /\ input = Str(<<"\"", "O", "k", "\"">>))
                          => out = [threw |-> "none", value |-> Str(<<"\"", "o", "k", "\"">>)]
                    /\ (operation = "trim" /\ input = Str(<<" ", "A", "b", " ">>))
                          => out = [threw |-> "none", value |-> Str(<<"A", "b">>)]
                    /\ (operation = "parse_json" /\ input = Str(<<"4", "2">>))
                          => out = [threw |-> "none", value |-> Num(42)]
                    /\ (operation = "parse_json" /\ input = Str(<<"\"", "O", "k", "\"">>))
                          => out = [threw |-> "none", value |-> Str(<<"O", "k">>)]

\* a tool stored with config {operation: "uppercase"} has been loaded, and called
\* with {text: "ab"} it returns "AB"
C13_Witness ==
    /\ result.op = "loadTool"
    /\ result.ok
    /\ objects[KeyOf(result.arg)].templateType = TplTransformation
    /\ objects[KeyOf(result.arg)].config = Config("uppercase", <<>>)
    /\ Invoke(result.tool.implementation,
              <<Entry(<<"t", "e", "x", "t">>, Str(<<"a", "b">>))>>).value
         = Str(<<"A", "B">>)

\* C14: after a tool named "echo" is stored with a function body that returns its
\* single argument unchanged and the catalog is refreshed, a call of "echo" through
\* the catalog with arguments {"x": 42} yields 42.
C14_EchoYieldsArgument ==
    (/\ result.op = "call_tool"
     /\ result.arg = NameEcho
     /\ result.args = <<Entry(<<"x">>, Num(42))>>
     /\ dynamicTools[NameEcho].present
     /\ dynamicTools[NameEcho].implementation = Fn(Src.identity, "global"))
        => /\ result.ok
           /\ result.message = <<"4", "2">>

C16_FailuresNameTheTool ==
    LET data == objects[KeyOf(result.arg)]
        undecodable == data.kind = "text" \/ (data.kind = "json" /\ ~data.hasSchema)
        unbuildable ==
            /\ data.kind = "json"
            /\ \/ data.templateType \notin {<<>>, TplApiCall, TplTransformation}
               \/ /\ data.templateType = <<>>
                  /\ data.functionBody.form \in {"garbage", "native", "method"}
    IN  (result.op = "loadTool" /\ (undecodable \/ unbuildable))
            => /\ ~result.ok
               /\ result.tool = NoTool
               /\ Includes(result.message, result.arg)

\* C17: a store under a name that holds a descriptor replaces the descriptor whole.
\* After storeTool(n, schema, f) over a templated descriptor, the descriptor at
\* tools/n has no templateType and no config, and loadTool(n) succeeds with an
\* implementation that returns what f returns; after storeTemplatedTool(n, ...)
\* over a function descriptor its functionBody is empty and loadTool(n) goes by the
\* template; what the other keys hold is unchanged by either call.
C17_RestoreReplaces ==
    [][\A t \in ToolNames :
          LET before == objects[KeyOf(t)]
              after == objects'[KeyOf(t)]
              loaded == loadTool(objects', t)
              others == \A k \in Keys \ {KeyOf(t)} : objects'[k] = objects[k]
          IN  /\ \A schema \in ParamSchemas, f \in Functions :
                    (/\ before.kind = "json"
                     /\ before.templateType # <<>>
                     /\ StoreTool(t, schema, f))
                       => /\ after.templateType = <<>>
                          /\ after.config = NoConfig
                          /\ loaded.ok
                          /\ \A args \in ArgLists :
                                Invoke(loaded.tool.implementation, args) = Invoke(f, args)
                          /\ others
              /\ \A call \in TemplateCalls :
                    (/\ before.kind = "json"
                     /\ before.templateType = <<>>
                     /\ StoreTemplatedTool(t, call.paramSchema, call.templateType,
                                           call.config))
                       => /\ after.functionBody = EmptySource
                          /\ after.templateType = call.templateType
                          /\ after.config = call.config
                          /\ IF call.templateType \in {TplApiCall, TplTransformation}
                             THEN /\ loaded.ok
                                  /\ loaded.tool.implementation
                                       = FromTemplate(call.templateType, call.config)
                             ELSE loaded.kind = "UnknownTemplate"
                          /\ others]_vars

\* C18 as stated: when an expected content hash is configured and the content hash
\* of the fallback file differs from it, load() of a store that is not loaded
\* fails with the integrity error, buffers no credential and leaves the store
\* unloaded, even if the file contains a credential.
C18_AsStated ==
    [][(/\ LoadSecrets
        /\ ~secretLoaded
        /\ envFile # NoFile
        /\ expectedHash # Undefined
        /\ expectedHash # <<"sha256">> \o envFile)
          => /\ ret'.err = Err.cannotProceed
             /\ ret'.cause = EnvText.integrity
             /\ secretBuffer' = Null
             /\ ~secretLoaded']_vars

\* C18, amended: the same when the external environment supplies no credential, so
\* that load() reads the fallback file.
C18_IntegrityMismatchIsFatal ==
    [][(/\ LoadSecrets
        /\ ~secretLoaded
        /\ envSlot \in {Undefined, <<>>}
        /\ envFile # NoFile
        /\ expectedHash # Undefined
        /\ expectedHash # <<"sha256">> \o envFile)
          => /\ ret'.err = Err.cannotProceed
             /\ ret'.cause = EnvText.integrity
             /\ secretBuffer' = Null
             /\ ~secretLoaded']_vars

\* a load has failed on the hash of a file that holds a credential
C18_Witness ==
    /\ ret.op = "loadSecrets"
    /\ ret.err = Err.cannotProceed
    /\ ret.cause = EnvText.integrity
    /\ envFile = FileWithKey
    /\ expectedHash = Sha256(FileWithoutKey)
    /\ secretBuffer = Null
    /\ ~secretLoaded
    /\ ~everLoaded

\* C19: after the key was consumed, a load that runs again and succeeds leaves the
\* store loaded with the credential the sources first supplied, so that the next
\* consume returns that credential.
C19_ReloadRestoresCredential ==
    [][(/\ LoadSecrets
        /\ everLoaded
        /\ ~secretLoaded
        /\ secretBuffer = Null
        /\ ret'.err = NoError)
          => /\ secretLoaded'
             /\ secretBuffer' = credential]_vars

\* C20: loadTool(name) either fails or returns a tool whose implementation is a
\* function that can be called, and it fails with InvalidFunctionBody naming the
\* tool for a descriptor whose functionBody evaluates to no function (the empty
\* text, an expression that is no function, text that does not compile); the
\* catalog never holds a tool whose implementation cannot be called.
C20_OnlyFunctionsAreTools ==
    \A t \in ToolNames :
        LET data == objects[KeyOf(t)]
            loaded == loadTool(objects, t)
        IN  /\ loaded.ok => loaded.tool.implementation.via \in {"function", "template"}
            /\ (/\ data.kind = "json"
                /\ data.hasSchema
                /\ data.templateType = <<>>
                /\ data.functionBody.form \notin {"function", "reference"})
                  => /\ loaded.kind = "InvalidFunctionBody"
                     /\ Includes(loaded.message, t)
            /\ dynamicTools[t].present
                  => dynamicTools[t].implementation.via \in {"function", "template"}

(***************************************************************************)
(* Claims about templated descriptors, the write of a descriptor and the   *)
(* catalog.                                                                *)
(***************************************************************************)

\* C21: for every descriptor storeTemplatedTool persists, whatever its templateType
\* and config, loadTool evaluates no source text: it returns a tool whose
\* implementation createFunctionFromTemplate built, or it fails, and not with the
\* failure of new Function.
C21_TemplatedNeverEvaluated ==
    [][\A t \in ToolNames, call \in TemplateCalls :
          StoreTemplatedTool(t, call.paramSchema, call.templateType, call.config)
             => LET loaded == loadTool(objects', t)
                IN  /\ loaded.ok => loaded.tool.implementation.via = "template"
                    /\ loaded.kind # "InvalidFunctionBody"]_vars

\* C22: within one call of storeTool or storeTemplatedTool the descriptor is whole
\* in memory, every schema entry encoded, before the write is issued, and the call
\* writes key tools/<name> once (not at all if it fails before): a key of the
\* bucket changes only when the write of a suspended call lands or another client
\* writes it, what lands is the complete descriptor named <name> the call held,
\* a call that is still suspended at its write has left the key as it was, and a
\* call that has returned has written once.
C22_OneWholeWrite ==
    [][LET tags == {"string", "number", "boolean", "array", "object", "unknown"}
           complete(d, name, paramSchema) ==
               /\ d.kind = "json"
               /\ d.hasSchema
               /\ d.name = name
               /\ Len(d.schema) = Len(paramSchema)
               /\ \A i \in 1..Len(d.schema) :
                     /\ d.schema[i].name = paramSchema[i].name
                     /\ d.schema[i].info.type \in tags
       IN  /\ \A p \in Procs, name \in ToolNames, body \in FunctionBodies,
                   parameters \in ParameterSets :
                 StoreToolFunction(p, name, body, parameters)
                    => /\ objects' = objects
                       /\ proc'[p].pc = "store"
                             => /\ complete(proc'[p].data, name, parameters)
                                /\ proc'[p].data.functionBody # EmptySource
                                /\ proc'[p].writes = 0
           /\ \A p \in Procs, name \in ToolNames, tt \in {TplTransformation, TplUnknown},
                   parameters \in ParameterSets :
                 StoreToolTemplate(p, name, tt, Config("uppercase", <<>>), parameters)
                    => /\ objects' = objects
                       /\ proc'[p].pc = "store"
                             => /\ complete(proc'[p].data, name, parameters)
                                /\ proc'[p].data.templateType = tt
                                /\ proc'[p].writes = 0
           /\ \A t \in ToolNames :
                 objects'[KeyOf(t)] # objects[KeyOf(t)]
                    => \/ \E d \in ForeignData : ForeignWrite(KeyOf(t), d)
                       \/ \E p \in Procs :
                             /\ proc[p].pc = "store"
                             /\ proc[p].key = t
                             /\ proc[p].writes = 0
                             /\ proc'[p].pc = "list"
                             /\ proc'[p].writes = 1
                             /\ objects'[KeyOf(t)] = proc[p].data
                             /\ \A k \in Keys \ {KeyOf(t)} : objects'[k] = objects[k]
           /\ \A p \in Procs :
                 /\ proc'[p].pc \in {"list", "load"}
                       => proc'[p].writes = proc[p].writes \/ proc[p].pc = "store"
                 /\ (/\ proc'[p].pc = "idle"
                     /\ proc'[p].handler \in {"store_tool_function", "store_tool_template"})
                       => proc'[p].writes = 1]_vars

\* a store_tool_function request has returned after its one write, and the key holds
\* the descriptor it wrote, while another call is suspended at its write
C22_Witness ==
    \E p, q \in Procs :
        /\ proc[p].pc = "idle"
        /\ proc[p].handler = "store_tool_function"
        /\ proc[p].writes = 1
        /\ objects[KeyOf(proc[p].key)].kind = "json"
        /\ objects[KeyOf(proc[p].key)].name = proc[p].key
        /\ Len(objects[KeyOf(proc[p].key)].schema) = 2
        /\ proc[q].pc = "store"
        /\ proc[q].key = proc[p].key
        /\ proc[q].data # objects[KeyOf(proc[q].key)]

\* C23: when a catalog refresh completes that no other refresh overlapped, the
\* catalog holds exactly the names the refresh listed and loaded: a name it did not
\* list, or whose load failed in it, is not in the catalog, whatever the catalog
\* held before.
C23_RefreshReplacesCatalog ==
    [][\A p \in Procs :
          (proc[p].pc \in {"list", "load"} /\ proc'[p].pc = "idle" /\ proc'[p].alone) =>
              \A t \in ToolNames :
                 dynamicTools'[t].present
                    <=> \E i \in 1..Len(proc'[p].names) :
                           proc'[p].names[i] = t /\ proc'[p].outcome[i]]_vars

\* a refresh that ran alone has completed: it listed both tools, the load of one
\* failed and the load of the other succeeded, and the catalog holds the other only
C23_Witness ==
    \E p \in Procs :
        /\ proc[p].pc = "idle"
        /\ proc[p].handler \in {"store_tool_function", "store_tool_template"}
        /\ proc[p].alone
        /\ proc[p].names = <<NameEcho, NameLong>>
        /\ proc[p].outcome = <<FALSE, TRUE>>
        /\ ~dynamicTools[NameEcho].present
        /\ dynamicTools[NameLong].present
        /\ \A q \in Procs : proc[q].pc = "idle"

\* C24: while a catalog refresh is suspended at an await of the object store, a
\* request that lists the tools or calls one does not find the catalog without a
\* tool it held when the refresh began and whose persisted descriptor still loads
\* to the entry it held: the call is not answered "Unknown tool" and the listing
\* has the name.
C24_NoTransientUnknown ==
    [][\A name \in ToolNames :
          (\E p \in Procs :
              /\ proc[p].pc \in {"list", "load"}
              /\ proc[p].catalog[name].present
              /\ loadTool(objects, name).ok
              /\ CatalogEntry(loadTool(objects, name).tool) = proc[p].catalog[name])
             => /\ \A args \in CallArgs :
                      CallTool(name, args) => result'.kind # "UnknownTool"
                /\ ListToolsRequest
                      => \E i \in (Len(RECALL_TOOLS) + 1)..Len(result'.names) :
                            result'.names[i] = name]_vars

\* C25: when the refreshes of two store_tool_function or store_tool_template
\* requests have overlapped and both requests have returned, with no other request
\* and no write of another client in the run, every entry of the catalog is the
\* entry the descriptor now persisted under its name loads to, and every listed
\* tool whose descriptor loads is in the catalog.
C25_InterleavedRefreshesConverge ==
    (/\ calls = 2
     /\ \A p \in {1, 2} :
           /\ proc[p].pc = "idle"
           /\ proc[p].handler \in {"store_tool_function", "store_tool_template"}
           /\ ~proc[p].alone
     /\ \A p \in Procs : proc[p].pc = "idle")
        => \A t \in ToolNames :
              LET loaded == loadTool(objects, t)
                  listed == \E i \in 1..Len(listTools(objects)) : listTools(objects)[i] = t
              IN  /\ dynamicTools[t].present
                        => loaded.ok /\ dynamicTools[t] = CatalogEntry(loaded.tool)
                  /\ (listed /\ loaded.ok) => dynamicTools[t].present

\* C26: a call of a tool under a built-in name is answered by the built-in case of
\* the handler, whatever tools have been stored and loaded, and the listing of the
\* tools has no name twice.
C26_BuiltinsNotShadowed ==
    /\ (/\ result.op = "call_tool"
        /\ \E i \in 1..Len(RECALL_TOOLS) : RECALL_TOOLS[i] = result.arg)
          => result.by = "builtin"
    /\ result.op = "list_tools"
          => \A i, j \in 1..Len(result.names) :
                result.names[i] = result.names[j] => i = j

(***************************************************************************)
(* Claims about the schema codec, the redactors and the templates.         *)
(***************************************************************************)

\* C27: for a validator whose declared kind is one of string, number, boolean,
\* array and object, marked optional or not, extractZodSchemaInfo returns the type
\* tag of that kind and required as the negation of the optional mark; a validator
\* of another kind is encoded as unknown.
C27_EncodeKeepsDeclaredKind ==
    codecWire # NoSchemaInfo =>
        LET marked == codecIn.cls = "ZodOptional"
            kind == IF marked THEN codecIn.inner ELSE codecIn.cls
        IN  IF kind \in RecognisedClasses
            THEN /\ codecWire.type = TypeTagOf(kind)
                 /\ codecWire.required = IF marked THEN "false" ELSE "true"
            ELSE codecWire.type = "unknown"

\* whether out is the mapping entries with every entry under a sensitive key, at
\* any depth, replaced by a mask: the fixed placeholder, the full mask, or the
\* first and last 4 characters around an ellipsis
RECURSIVE MaskedAtEveryDepth(_, _)
MaskedAtEveryDepth(entries, out) ==
    LET sensitive(key) == \E sk \in sensitiveKeys : Includes(ToLowerCase(key), sk)
        masks(value) ==
            {REDACTED, <<"*", "*", "*", "*", "*", "*", "*", "*">>}
            \cup (IF value.t = "string" /\ Len(value.s) > 8
                  THEN {SubSeq(value.s, 1, 4) \o <<".", ".", ".">>
                        \o SubSeq(value.s, Len(value.s) - 3, Len(value.s))}
                  ELSE {})
    IN  /\ out.t = "object"
        /\ Len(out.e) = Len(entries)
        /\ \A i \in 1..Len(entries) :
              /\ out.e[i].k = entries[i].k
              /\ IF sensitive(entries[i].k)
                 THEN out.e[i].v.t = "string" /\ out.e[i].v.s \in masks(entries[i].v)
                 ELSE entries[i].v.t = "object"
                         => MaskedAtEveryDepth(entries[i].v.e, out.e[i].v)

\* C28: for a mapping, every entry at any depth whose key in lower case contains a
\* keyword of the sensitive set has its value masked in what the redactor returns,
\* and the mappings under the other keys are processed in the same way.
C28_SensitiveEntriesMaskedDeep ==
    (redactOut.by # "none" /\ redactIn.t = "object")
        => MaskedAtEveryDepth(redactIn.e, redactOut.value)

\* C29: a tool built from the api_call template hands fetch a body, the JSON text of
\* args.body, exactly when the effective method of the request (config.method, GET
\* when the config has none) is not GET and args has a body; a request whose method
\* is GET has no body.
C29_BodyOnlyForNonGet ==
    (/\ result.op = "loadTool"
     /\ result.ok
     /\ result.tool.implementation.via = "template"
     /\ result.tool.implementation.templateType = TplApiCall
     /\ result.tool.implementation.config.endpoint # <<>>)
        => \A args \in ApiArgs :
              LET config == result.tool.implementation.config
                  request == ApiRequest(config, args)
                  effective == IF config.method = <<>> THEN MethodGet ELSE config.method
                  body == Property(args, <<"b", "o", "d", "y">>)
              IN  /\ request.method = effective
                  /\ request.body # NoValue <=> (effective # MethodGet /\ body # NoValue)
                  /\ request.body # NoValue => request.body = Str(JsonCompact(body))
                  /\ request.method = MethodGet => request.body = NoValue

====
